---- MODULE Spec2Model ----
(***************************************************************************)
(* Text-metrics engine of portuguese-llm: the UDPipe client with its retry *)
(* loop, the CoNLL-U based complexity and lemma analyzers, the spaCy based *)
(* stylometric analyzer and the TextMetricsAnalyzer orchestrator.          *)
(*                                                                         *)
(* Conventions.  A Python str that the code inspects character by          *)
(* character (the text, a token's surface text, a dependency label) is a   *)
(* sequence of one-character strings; a str that is only compared or       *)
(* joined (form, lemma) is a TLA+ string.  A float rounded to d decimals   *)
(* is the integer number of 10^-d units (round(x, 2) = 1.25 is 125).       *)
(* An Optional[str] is a record [isNone, val].                             *)
(***************************************************************************)
EXTENDS Integers, Sequences, FiniteSets, TLC

----------------------------------------------------------------------------
(* Generic helpers *)

RECURSIVE SumSeq(_)
SumSeq(s) == IF Len(s) = 0 THEN 0 ELSE Head(s) + SumSeq(Tail(s))

RECURSIVE MaxSeq(_)
\* the first element taken for the greatest
MaxSeq_First(s) == Head(s)

MaxSeq(s) ==
    IF Len(s) = 1 THEN Head(s)
    ELSE LET m == MaxSeq(Tail(s)) IN IF Head(s) >= m THEN Head(s) ELSE m

Range(s) == {s[i] : i \in 1..Len(s)}

\* `sub in s` on Python strings: sub occurs as a contiguous substring of s
Contains(sub, s) ==
    \E i \in 0..(Len(s) - Len(sub)) : SubSeq(s, i + 1, i + Len(sub)) = sub

\* round(n/d * 10^k) for d > 0, ties to the even neighbour (Python 3 round)
RoundHalfEven(n, d) ==
    LET q == n \div d
        r == n % d
    IN  IF 2 * r < d THEN q
        ELSE IF 2 * r > d THEN q + 1
        ELSE IF q % 2 = 0 THEN q ELSE q + 1

Round2(n, d) == RoundHalfEven(100 * n, d)

Round4(n, d) == RoundHalfEven(10000 * n, d)

NoneStr == [isNone |-> TRUE, val |-> <<>>]

Some(a) == [isNone |-> FALSE, val |-> a]

EmptyDict == [k \in {} |-> 0]

\* dict.update(d): keys of d overwrite, the others are kept
Update(m, d) ==
    [k \in (DOMAIN m) \cup (DOMAIN d) |-> IF k \in DOMAIN d THEN d[k] ELSE m[k]]

----------------------------------------------------------------------------
(* BaseAnalyzer *)

UDPipeKeys ==
    {"MLC", "MLS", "DCC", "CPC", "profundidade_media", "profundidade_max",
     "ttr", "lexical_density", "token_quantity"}

NerKeys == {"per_count", "org_count", "loc_count"}

StylometricKeys ==
    {"noun_freq", "verb_freq", "adj_freq", "adv_freq", "avg_word_length",
     "long_words_ratio", "sentence_length_variance", "punctuation_ratio",
     "flesch_reading_ease"} \cup NerKeys

AllKeys == UDPipeKeys \cup StylometricKeys \cup {"lemmas"}

_get_base_metrics == [k \in UDPipeKeys |-> 0]

_get_stylometric_metrics == [k \in StylometricKeys |-> 0]

_get_empty_metrics ==
    [k \in AllKeys |-> IF k = "lemmas" THEN "" ELSE 0]

Whitespace == {" ", "\t", "\n", "\r"}

RECURSIVE lstrip(_)
lstrip(s) ==
    IF Len(s) > 0 /\ Head(s) \in Whitespace THEN lstrip(Tail(s)) ELSE s

RECURSIVE rstrip(_)
rstrip(s) ==
    IF Len(s) > 0 /\ s[Len(s)] \in Whitespace
    THEN rstrip(SubSeq(s, 1, Len(s) - 1)) ELSE s

strip(s) == rstrip(lstrip(s))

\* the test without its `not text.strip()`
IsBlank_NoStrip(txt) == Len(txt) = 0

\* `not text or not text.strip()`
IsBlank(txt) == Len(txt) = 0 \/ Len(strip(txt)) = 0

UpperLetters ==
    <<"A", "B", "C", "D", "E", "F", "G", "H", "I", "J", "K", "L", "M",
      "N", "O", "P", "Q", "R", "S", "T", "U", "V", "W", "X", "Y", "Z",
      "A_acute", "E_acute", "I_acute", "O_acute", "U_acute", "A_grave", "E_grave", "I_grave", "O_grave", "U_grave",
      "A_circ", "E_circ", "I_circ", "O_circ", "U_circ", "A_tilde", "O_tilde">>

LowerLetters ==
    <<"a", "b", "c", "d", "e", "f", "g", "h", "i", "j", "k", "l", "m",
      "n", "o", "p", "q", "r", "s", "t", "u", "v", "w", "x", "y", "z",
      "a_acute", "e_acute", "i_acute", "o_acute", "u_acute", "a_grave", "e_grave", "i_grave", "o_grave", "u_grave",
      "a_circ", "e_circ", "i_circ", "o_circ", "u_circ", "a_tilde", "o_tilde">>

\* an accented vowel is one character, written as its base letter and accent name
AccentedVowels == {LowerLetters[i] : i \in 27..43}

Vowels == {"a", "e", "i", "o", "u"} \cup AccentedVowels

KeptChars == {LowerLetters[i] : i \in 1..26} \cup AccentedVowels

lower(s) ==
    [i \in 1..Len(s) |->
        IF \E j \in 1..Len(UpperLetters) : UpperLetters[j] = s[i]
        THEN LowerLetters[CHOOSE j \in 1..Len(UpperLetters) : UpperLetters[j] = s[i]]
        ELSE s[i]]

\* str.count(sub): occurrences found left to right without overlap
RECURSIVE CountSub(_, _)
CountSub(s, sub) ==
    IF Len(s) < Len(sub) THEN 0
    ELSE IF SubSeq(s, 1, Len(sub)) = sub
         THEN 1 + CountSub(SubSeq(s, Len(sub) + 1, Len(s)), sub)
         ELSE CountSub(Tail(s), sub)

Diphthongs ==
    <<<<"a", "i">>, <<"a", "u">>, <<"e", "i">>, <<"e", "u">>,
      <<"o", "i">>, <<"o", "u">>, <<"u", "i">>>>

\* a count of the vowels, not of the runs of vowels
VowelRuns_EveryVowel(w) == Cardinality({i \in 1..Len(w) : w[i] \in Vowels})

\* syllable_count after the loop: the characters that are vowels and do not
\* follow a vowel
VowelRuns(w) ==
    Cardinality({i \in 1..Len(w) :
        w[i] \in Vowels /\ (i = 1 \/ w[i - 1] \notin Vowels)})

\* the count returned as it is
AtLeastOne_Unclamped(n) == n

\* max(1, syllable_count)
AtLeastOne(n) == IF n >= 1 THEN n ELSE 1

_count_syllables_pt(word) ==
    LET w0 == strip(lower(word))
        w  == SelectSeq(w0, LAMBDA c : c \in KeptChars)
        d  == SumSeq([k \in 1..Len(Diphthongs) |-> CountSub(w, Diphthongs[k])])
        n  == VowelRuns(w) - d
    IN  IF Len(w0) = 0 THEN 0
        ELSE IF Len(w) = 0 THEN 1
        ELSE AtLeastOne(n)

----------------------------------------------------------------------------
(* Dependency labels: compared by equality and by substring *)

D_punct == <<"p", "u", "n", "c", "t">>

D_nummod == <<"n", "u", "m", "m", "o", "d">>

D_csubj == <<"c", "s", "u", "b", "j">>

D_ccomp == <<"c", "c", "o", "m", "p">>

D_xcomp == <<"x", "c", "o", "m", "p">>

D_advcl == <<"a", "d", "v", "c", "l">>

D_acl == <<"a", "c", "l">>

D_conj == <<"c", "o", "n", "j">>

D_cc == <<"c", "c">>

D_nsubj == <<"n", "s", "u", "b", "j">>

D_root == <<"r", "o", "o", "t">>

D_mark == <<"m", "a", "r", "k">>

D_obj == <<"o", "b", "j">>

----------------------------------------------------------------------------
(* UDPipeClient.parse_response: conllu.parse on the annotation.            *)
(* An annotation is the sequence of its lines, a line the sequence of its  *)
(* tab-separated columns (id, form, lemma, upos, xpos, feats, head,        *)
(* deprel, deps, misc), a blank line the empty sequence.  The lines of the *)
(* model have one column or all ten.                                       *)

IntFields == <<"0", "1", "2", "3", "4", "5", "6", "7", "8", "9">>

IsIntField(f) == \E i \in 1..Len(IntFields) : IntFields[i] = f

ParseInt(f) == (CHOOSE i \in 1..Len(IntFields) : IntFields[i] = f) - 1

\* a line without a tab, or with an id or head that is no integer, is a ParseException
LineRaises(line) ==
    \/ Len(line) = 1
    \/ ~IsIntField(line[1])
    \/ ~IsIntField(line[7])

parse_line(line) ==
    [id     |-> ParseInt(line[1]),
     form   |-> line[2],
     lemma  |-> line[3],
     upos   |-> line[4],
     head   |-> ParseInt(line[7]),
     deprel |-> line[8]]

\* blocks of consecutive non-blank lines, one per sentence
RECURSIVE SplitSentences(_, _, _)
SplitSentences(lines, cur, acc) ==
    IF Len(lines) = 0
    THEN (IF Len(cur) = 0 THEN acc ELSE Append(acc, cur))
    ELSE IF Len(Head(lines)) = 0
         THEN SplitSentences(Tail(lines), <<>>,
                             IF Len(cur) = 0 THEN acc ELSE Append(acc, cur))
         ELSE SplitSentences(Tail(lines), Append(cur, Head(lines)), acc)

ParseRaises(udpipe_out) ==
    \E i \in 1..Len(udpipe_out) :
        Len(udpipe_out[i]) > 0 /\ LineRaises(udpipe_out[i])

parse_response(udpipe_out) ==
    LET blocks == SplitSentences(udpipe_out, <<>>, <<>>)
    IN  [b \in 1..Len(blocks) |->
            [t \in 1..Len(blocks[b]) |-> parse_line(blocks[b][t])]]

----------------------------------------------------------------------------
(* LinguisticComplexityAnalyzer *)

\* a clause test that leaves the dependent clauses out
is_clause_NoDependent(token) ==
    \E d \in {D_csubj, D_ccomp, D_xcomp} : Contains(d, token.deprel)

is_clause(token) ==
    \E d \in {D_csubj, D_ccomp, D_xcomp, D_advcl, D_acl} : Contains(d, token.deprel)

is_dependent_clause(token) ==
    \E d \in {D_advcl, D_acl} : Contains(d, token.deprel)

\* a test by equality, which misses the labels that only contain "cc"
is_coordination_Exact(token) == token.deprel \in {D_conj, D_cc}

is_coordination(token) ==
    \E d \in {D_conj, D_cc} : Contains(d, token.deprel)

is_lexical(token) == token.upos \in {"NOUN", "ADJ", "VERB"}

\* a test by substring, which drops subtyped punctuation too
is_content_Substring(token) == ~Contains(D_punct, token.deprel)

\* `t["deprel"] != "punct"`
is_content(token) == token.deprel # D_punct

\* sent.to_tree() raises unless the sentence has exactly one token with head 0
to_tree_raises(sent) ==
    Cardinality({i \in 1..Len(sent) : sent[i].head = 0}) # 1

to_tree(sent) == CHOOSE i \in 1..Len(sent) : sent[i].head = 0

\* no.children: the tokens whose head is the node's id
RECURSIVE profundidade_maxima(_, _)
\* a depth that looks one level down only
profundidade_maxima_OneLevel(sent, no) ==
    IF {i \in 1..Len(sent) : sent[i].head = sent[no].id} = {} THEN 0 ELSE 1

profundidade_maxima(sent, no) ==
    LET children == {i \in 1..Len(sent) : sent[i].head = sent[no].id}
        deepest  == CHOOSE d \in {profundidade_maxima(sent, c) : c \in children} :
                        \A c \in children : profundidade_maxima(sent, c) <= d
    IN  IF children = {} THEN 0 ELSE 1 + deepest

RECURSIVE Flatten(_)
Flatten(sents) ==
    IF Len(sents) = 0 THEN <<>>
    ELSE Head(sents) \o Flatten(Tail(sents))

\* a denominator of at least one instead of the test for zero
Ratio2_AtLeastOne(n, d) == Round2(n, IF d > 0 THEN d ELSE 1)

\* round(n / d if d > 0 else 0, 2)
Ratio2(n, d) == IF d > 0 THEN Round2(n, d) ELSE 0

_analyze_sentences_raises(sents) ==
    \E i \in 1..Len(sents) : to_tree_raises(sents[i])

_analyze_sentences(sents) ==
    LET CountOver(Test(_)) ==
            SumSeq([i \in 1..Len(sents) |-> Len(SelectSeq(sents[i], Test))])
        total_clauses           == CountOver(is_clause)
        total_dependent_clauses == CountOver(is_dependent_clause)
        total_coordinated       == CountOver(is_coordination)
        total_tokens            == CountOver(is_content)
        total_sentences         == Len(sents)
        depths == [i \in 1..Len(sents) |->
                      profundidade_maxima(sents[i], to_tree(sents[i]))]
        tokens == SelectSeq(Flatten(sents), is_content)
        types  == {tokens[i].form : i \in 1..Len(tokens)}
        lexical_count == CountOver(is_lexical)
    IN  [MLC |-> Ratio2(total_tokens, total_clauses),
         MLS |-> Ratio2(total_tokens, total_sentences),
         DCC |-> Ratio2(total_dependent_clauses, total_clauses),
         CPC |-> Ratio2(total_coordinated, total_clauses),
         profundidade_media |-> IF Len(depths) > 0 THEN Round2(SumSeq(depths), Len(depths)) ELSE 0,
         profundidade_max   |-> IF Len(depths) > 0 THEN MaxSeq(depths) ELSE 0,
         ttr |-> IF Len(tokens) > 0 THEN Round4(Cardinality(types), Len(tokens)) ELSE 0,
         lexical_density |-> IF total_tokens > 0 THEN Round4(lexical_count, total_tokens) ELSE 0,
         token_quantity  |-> total_tokens]

\* an except clause that returns an empty dict
LinguisticComplexityAnalyzer_analyze_EmptyOnError(sents) ==
    IF Len(sents) = 0 THEN _get_base_metrics
    ELSE IF _analyze_sentences_raises(sents) THEN EmptyDict
    ELSE _analyze_sentences(sents)

LinguisticComplexityAnalyzer_analyze(sents) ==
    IF Len(sents) = 0 THEN _get_base_metrics
    ELSE IF _analyze_sentences_raises(sents) THEN _get_base_metrics
    ELSE _analyze_sentences(sents)

----------------------------------------------------------------------------
(* extract_lemmas_string and LemmatizerAnalyzer *)

RECURSIVE JoinSpace(_)
JoinSpace(words) ==
    IF Len(words) = 0 THEN ""
    ELSE IF Len(words) = 1 THEN Head(words)
    ELSE Head(words) \o " " \o JoinSpace(Tail(words))

\* a filter by substring, which drops subtyped relations too
keeps_lemma_Substring(token) ==
    ~Contains(D_punct, token.deprel) /\ ~Contains(D_nummod, token.deprel)

\* neither `deprel == "punct"` nor `deprel == "nummod"`
keeps_lemma(token) == token.deprel # D_punct /\ token.deprel # D_nummod

extract_lemmas_string(sents) ==
    LET kept == SelectSeq(Flatten(sents), keeps_lemma)
    IN  JoinSpace([i \in 1..Len(kept) |-> kept[i].lemma])

\* LemmatizerAnalyzer.analyze once it holds an annotation (given or fetched)
LemmatizerAnalyzer_lemmas(txt, udpipe_out) ==
    IF IsBlank(txt) THEN [lemmas |-> ""]
    ELSE IF ParseRaises(udpipe_out) THEN [lemmas |-> ""]
    ELSE [lemmas |-> extract_lemmas_string(parse_response(udpipe_out))]

----------------------------------------------------------------------------
(* StylometricAnalyzer.  The spaCy pipeline is outside the repository: a   *)
(* Doc is a record of what the code reads from it (tokens with text, pos_, *)
(* is_punct, is_space and their sentence, the number of sentences, the     *)
(* entity labels), and nlp is the table of the Docs of the model's texts.  *)

TEXT_EMPTY == <<>>

TEXT_BLANK == <<" ", "\n">>

TEXT_A == <<"A", "n", "a", " ", "v", "i", "u", " ", "a", " ", "O", "N", "U", " ", "h", "o", "j", "e", ".">>

TEXT_B == <<"R", "i", "o", " ", "e", " ", "m", "a", "r", ".", " ", "Q", "u", "e", " ", "l", "i", "n", "d", "o", "!">>

\* spaCy refuses a text longer than nlp.max_length (1,000,000 characters by
\* default) with a ValueError; the model scales the limit down
nlp_max_length == 22

TEXT_LONG == [i \in 1..24 |-> IF i % 2 = 0 THEN "a" ELSE "l"]

DOC_A ==
    [tokens |-> <<
        [text |-> <<"A", "n", "a">>, pos |-> "PROPN", is_punct |-> FALSE, is_space |-> FALSE, sent |-> 1],
        [text |-> <<"v", "i", "u">>, pos |-> "VERB", is_punct |-> FALSE, is_space |-> FALSE, sent |-> 1],
        [text |-> <<"a">>, pos |-> "DET", is_punct |-> FALSE, is_space |-> FALSE, sent |-> 1],
        [text |-> <<"O", "N", "U">>, pos |-> "PROPN", is_punct |-> FALSE, is_space |-> FALSE, sent |-> 1],
        [text |-> <<"h", "o", "j", "e">>, pos |-> "ADV", is_punct |-> FALSE, is_space |-> FALSE, sent |-> 1],
        [text |-> <<".">>, pos |-> "PUNCT", is_punct |-> TRUE, is_space |-> FALSE, sent |-> 1]>>,
     nsents |-> 1,
     ents   |-> <<"PER", "ORG">>]

DOC_B ==
    [tokens |-> <<
        [text |-> <<"R", "i", "o">>, pos |-> "PROPN", is_punct |-> FALSE, is_space |-> FALSE, sent |-> 1],
        [text |-> <<"e">>, pos |-> "CCONJ", is_punct |-> FALSE, is_space |-> FALSE, sent |-> 1],
        [text |-> <<"m", "a", "r">>, pos |-> "NOUN", is_punct |-> FALSE, is_space |-> FALSE, sent |-> 1],
        [text |-> <<".">>, pos |-> "PUNCT", is_punct |-> TRUE, is_space |-> FALSE, sent |-> 1],
        [text |-> <<"Q", "u", "e">>, pos |-> "PRON", is_punct |-> FALSE, is_space |-> FALSE, sent |-> 2],
        [text |-> <<"l", "i", "n", "d", "o">>, pos |-> "ADJ", is_punct |-> FALSE, is_space |-> FALSE, sent |-> 2],
        [text |-> <<"!">>, pos |-> "PUNCT", is_punct |-> TRUE, is_space |-> FALSE, sent |-> 2]>>,
     nsents |-> 2,
     ents   |-> <<"LOC", "MISC">>]

DOC_OTHER == [tokens |-> <<>>, nsents |-> 0, ents |-> <<>>]

nlp_raises(txt) == Len(txt) > nlp_max_length

nlp(txt) ==
    IF txt = TEXT_A THEN DOC_A
    ELSE IF txt = TEXT_B THEN DOC_B
    ELSE DOC_OTHER

\* a word test that lets space tokens through
is_word_NotPunct(token) == ~token.is_punct

\* `not token.is_punct and not token.is_space`
is_word(token) == ~token.is_punct /\ ~token.is_space

\* round(count / total * 100, 2)
Percent2(count, total) == RoundHalfEven(10000 * count, total)

_calculate_pos_frequencies(doc) ==
    LET tokens       == SelectSeq(doc.tokens, is_word)
        total_tokens == Len(tokens)
        pos_counts(p) == Len(SelectSeq(tokens, LAMBDA t : t.pos = p))
    IN  IF total_tokens = 0
        THEN [noun_freq |-> 0, verb_freq |-> 0, adj_freq |-> 0, adv_freq |-> 0]
        ELSE [noun_freq |-> Percent2(pos_counts("NOUN"), total_tokens),
              verb_freq |-> Percent2(pos_counts("VERB"), total_tokens),
              adj_freq  |-> Percent2(pos_counts("ADJ"), total_tokens),
              adv_freq  |-> Percent2(pos_counts("ADV"), total_tokens)]

_extract_named_entities(doc) ==
    [per_count |-> Len(SelectSeq(doc.ents, LAMBDA l : l \in {"PER", "PERSON"})),
     org_count |-> Len(SelectSeq(doc.ents, LAMBDA l : l = "ORG")),
     loc_count |-> Len(SelectSeq(doc.ents, LAMBDA l : l \in {"LOC", "GPE", "PLACE"}))]

_calculate_lexical_metrics(doc) ==
    LET tokens       == SelectSeq(doc.tokens, is_word)
        total_tokens == Len(tokens)
        word_lengths == [i \in 1..total_tokens |-> Len(tokens[i].text)]
        long_words   == Len(SelectSeq(tokens, LAMBDA t : Len(t.text) > 6))
    IN  IF total_tokens = 0
        THEN [avg_word_length |-> 0, long_words_ratio |-> 0]
        ELSE [avg_word_length  |-> Round2(SumSeq(word_lengths), total_tokens),
              long_words_ratio |-> Percent2(long_words, total_tokens)]

\* fre_score = 248.835 - 1.015 * (words / sentences) - 84.6 * (syllables /
\* words) as the fraction num / den, den = 1000 * sentences * words
fre_score(doc) ==
    LET total_sentences == doc.nsents
        words           == SelectSeq(doc.tokens, is_word)
        total_words     == Len(words)
        total_syllables ==
            SumSeq([i \in 1..total_words |-> _count_syllables_pt(words[i].text)])
    IN  [total_sentences |-> total_sentences,
         total_words     |-> total_words,
         num |-> 248835 * total_sentences * total_words
                 - 1015 * total_words * total_words
                 - 84600 * total_syllables * total_sentences,
         den |-> 1000 * total_sentences * total_words]

\* the value on the exact fraction; where the fraction lies halfway between
\* two hundredths the float decides, see round_ties
_calculate_flesch_reading_ease(txt, doc) ==
    LET f == fre_score(doc)
    IN  IF f.total_sentences = 0 THEN 0
        ELSE IF f.total_words = 0 THEN 0
        ELSE Round2(f.num, f.den)

\* round(x, 2) on a float x whose exact value n / d lies halfway between two
\* hundredths: the representation error of x decides, so both neighbours
\* are possible
round_ties(n, d) ==
    {r \in {Round2(n, d) - 1, Round2(n, d) + 1} :
        2 * (100 * n - r * d) = d \/ 2 * (r * d - 100 * n) = d}

\* np.var is the population variance: (n * sum(x^2) - sum(x)^2) / n^2
_calculate_syntactic_metrics(doc) ==
    LET sentence_lengths ==
            [k \in 1..doc.nsents |->
                Len(SelectSeq(doc.tokens, LAMBDA t : t.sent = k /\ is_word(t)))]
        n            == Len(sentence_lengths)
        sum_sq       == SumSeq([k \in 1..n |-> sentence_lengths[k] * sentence_lengths[k]])
        sum          == SumSeq(sentence_lengths)
        total_tokens == Len(SelectSeq(doc.tokens, LAMBDA t : ~t.is_space))
        punct_count  == Len(SelectSeq(doc.tokens, LAMBDA t : t.is_punct))
    IN  [sentence_length_variance |->
            IF n > 1 THEN Round2(n * sum_sq - sum * sum, n * n) ELSE 0,
         punctuation_ratio |->
            IF total_tokens > 0 THEN Percent2(punct_count, total_tokens) ELSE 0]

StylometricAnalyzer_analyze(txt) ==
    IF IsBlank(txt) THEN _get_stylometric_metrics
    ELSE IF nlp_raises(txt) THEN _get_stylometric_metrics
    ELSE LET doc == nlp(txt)
             m1  == Update(EmptyDict, _calculate_pos_frequencies(doc))
             m2  == Update(m1, _extract_named_entities(doc))
             m3  == Update(m2, _calculate_lexical_metrics(doc))
             m4  == Update(m3, [flesch_reading_ease |->
                                   _calculate_flesch_reading_ease(txt, doc)])
         IN  Update(m4, _calculate_syntactic_metrics(doc))

----------------------------------------------------------------------------
(* Annotations of the model *)

CONLLU_EMPTY == <<>>

CONLLU_OK ==
    <<<<"1", "Ana", "Ana", "PROPN", "_", "_", "2", D_nsubj, "_", "_">>,
      <<"2", "ri", "rir", "VERB", "_", "_", "0", D_root, "_", "_">>,
      <<"3", "porque", "porque", "SCONJ", "_", "_", "4", D_mark, "_", "_">>,
      <<"4", "quer", "querer", "VERB", "_", "_", "2", D_advcl, "_", "_">>,
      <<"5", ".", ".", "PUNCT", "_", "_", "2", D_punct, "_", "_">>,
      <<>>,
      <<"1", "dois", "dois", "NUM", "_", "_", "2", D_nummod, "_", "_">>,
      <<"2", "gatos", "gato", "NOUN", "_", "_", "0", D_root, "_", "_">>,
      <<"3", "e", "e", "CCONJ", "_", "_", "4", D_cc, "_", "_">>,
      <<"4", "gatos", "gato", "NOUN", "_", "_", "2", D_conj, "_", "_">>,
      <<>>>>

\* two tokens with head 0: parses, but to_tree raises
CONLLU_TWO_ROOTS ==
    <<<<"1", "sim", "sim", "INTJ", "_", "_", "0", D_root, "_", "_">>,
      <<"2", "claro", "claro", "ADJ", "_", "_", "0", D_root, "_", "_">>,
      <<"3", "!", "!", "PUNCT", "_", "_", "2", D_punct, "_", "_">>,
      <<>>>>

\* a line without tabs: conllu.parse raises
CONLLU_BAD == <<<<"Internal Server Error">>>>

Annotations == {CONLLU_EMPTY, CONLLU_OK, CONLLU_TWO_ROOTS, CONLLU_BAD}

Texts == {TEXT_EMPTY, TEXT_BLANK, TEXT_A, TEXT_B, TEXT_LONG}

----------------------------------------------------------------------------
(* UDPipeClient *)

max_retries == 3

retry_delay == 5

\* what one requests.post can end in
TransportErrors == {"timeout", "request_exception"}

ProtocolErrors == {"http_error", "no_result"}

----------------------------------------------------------------------------
(* State: one TextMetricsAnalyzer and the call of analyze in progress *)

VARIABLES
    udpipe_enabled,         \* self.udpipe_enabled
    pc,                     \* position of the call; "idle" between calls
    text,                   \* argument text
    arg_output,             \* argument udpipe_output as passed
    include_ner,            \* argument include_ner
    include_lemmatization,  \* argument include_lemmatization
    udpipe_output,          \* local udpipe_output (reassigned by the fetch)
    sentences,              \* local sentences
    metrics,                \* local metrics
    attempt,                \* loop variable of generate_one_response
    requests,               \* requests.post calls of the current call
    waited,                 \* seconds slept by the current call
    last_outcome,           \* outcome of the latest requests.post
    fetch_status,           \* "none", "running", "ok" or "raised"
    calls,                  \* component invocations of the current call
    returned,               \* a call has returned; result is its record
    result,                 \* the record returned by the latest call
    hist,                   \* summary of the call before the latest one
    data_metadata,          \* UDPipeClient.data_metadata, shared by all calls
    tasks,                  \* the calls submitted to the thread pool, by row
    posted,                 \* the requests.post calls made by the pool's tasks
    fn,                     \* the component function called on its own
    arg,                    \* its argument
    ret,                    \* its return value
    df,                     \* the rows of the input parquet file
    row_outcomes,           \* what the analysis of each row of df gives
    parallel_method,        \* ParquetMetricsEnricher.parallel_method
    checkpoint_interval,    \* ParquetMetricsEnricher.checkpoint_interval
    resume,                 \* argument resume of enrich_parquet
    clock,                  \* int(time.time()) when enrich_parquet started
    current_job_id,         \* ParquetMetricsEnricher.current_job_id
    checkpoint_dir,         \* the checkpoint files, by job id
    metrics_list,           \* local metrics_list of _compute_metrics
    processed_count,        \* ParquetMetricsEnricher.processed_count
    failed_count,           \* ParquetMetricsEnricher.failed_count
    start_idx,              \* local start_idx of _compute_metrics
    idx,                    \* loop variable of _execute_sequential
    processed_since_checkpoint, \* local of _execute_parallel
    phase,                  \* position of the driver in enrich_parquet
    run,                    \* "first" run of the driver or the run "again"
    passed,                 \* the arguments handed to analyze, by row
    loaded,                 \* the checkpoint file the run loaded, if any
    disturbed,              \* the run resumed, or a worker or the executor failed
    previous                \* summary of the run before this one

\* the variables of one call of analyze after another
call_vars ==
    <<udpipe_enabled, pc, text, arg_output, include_ner, include_lemmatization,
      udpipe_output, sentences, metrics, attempt, requests, waited,
      last_outcome, fetch_status, calls, returned, result, hist>>

\* the variables of the thread pool's concurrent calls
pool_vars == <<data_metadata, tasks, posted>>

\* the variables of a component function called on its own
unit_vars == <<fn, arg, ret>>

\* the variables of the batch driver
batch_vars ==
    <<df, row_outcomes, parallel_method, checkpoint_interval, resume, clock,
      current_job_id, checkpoint_dir, metrics_list, processed_count,
      failed_count, start_idx, idx, processed_since_checkpoint, phase, run,
      passed, loaded, disturbed, previous>>

\* what a step of a sequential call of analyze leaves alone
outside == <<pool_vars, unit_vars, batch_vars>>

vars == <<call_vars, pool_vars, unit_vars, batch_vars>>

\* self.data_metadata as UDPipeClient.__init__ builds it
DataMetadata ==
    [tokenizer |-> "", tagger |-> "", parser |-> "",
     model |-> "portuguese-bosque-ud-2.12-230717"]

\* no thread pool at work
NoPool ==
    /\ data_metadata = DataMetadata
    /\ tasks = <<>>
    /\ posted = {}

\* no component function called on its own
NoUnitCall ==
    /\ fn = "none"
    /\ arg = <<>>
    /\ ret = <<>>

\* no batch driver at work
NoBatch ==
    /\ df = <<>>
    /\ row_outcomes = <<>>
    /\ parallel_method = "sequential"
    /\ checkpoint_interval = 0
    /\ resume = FALSE
    /\ clock = 0
    /\ current_job_id = 0
    /\ checkpoint_dir = <<>>
    /\ metrics_list = <<>>
    /\ processed_count = 0
    /\ failed_count = 0
    /\ start_idx = 0
    /\ idx = 0
    /\ processed_since_checkpoint = 0
    /\ phase = "none"
    /\ run = "none"
    /\ passed = <<>>
    /\ loaded = [exists |-> FALSE]
    /\ disturbed = FALSE
    /\ previous = [valid |-> FALSE]

NoCalls ==
    [fetch |-> 0, parse |-> 0, complexity |-> 0, lemmatizer |-> 0,
     lemmatizer_fetch |-> 0, stylometric |-> 0]

NoHist ==
    [valid |-> FALSE, text |-> TEXT_EMPTY, arg_output |-> NoneStr,
     udpipe_output |-> NoneStr, include_ner |-> TRUE,
     include_lemmatization |-> TRUE, result |-> _get_empty_metrics,
     between |-> FALSE]

\* the latest call, as the next call will remember it
Summary ==
    [valid |-> TRUE, text |-> text, arg_output |-> arg_output,
     udpipe_output |-> udpipe_output, include_ner |-> include_ner,
     include_lemmatization |-> include_lemmatization, result |-> result,
     between |-> FALSE]

\* the fallback branch without its `metrics["lemmas"] = ""`
UDPipeDisabledDefaults_NoLemmas == [k \in UDPipeKeys |-> 0]

UDPipeDisabledDefaults ==
    Update([lemmas |-> ""], [k \in UDPipeKeys |-> 0])

\* no call of analyze made yet
NoCallYet ==
    /\ pc = "idle"
    /\ text = TEXT_EMPTY
    /\ arg_output = NoneStr
    /\ include_ner = TRUE
    /\ include_lemmatization = TRUE
    /\ udpipe_output = NoneStr
    /\ sentences = <<>>
    /\ metrics = EmptyDict
    /\ attempt = 0
    /\ requests = 0
    /\ waited = 0
    /\ last_outcome = "none"
    /\ fetch_status = "none"
    /\ calls = NoCalls
    /\ returned = FALSE
    /\ result = EmptyDict
    /\ hist = NoHist

Init ==
    /\ udpipe_enabled \in BOOLEAN
    /\ NoCallYet
    /\ NoPool
    /\ NoUnitCall
    /\ NoBatch

\* a test that also takes the UDPipe branch for a supplied annotation
UseUDPipe_IfSupplied(a) == udpipe_enabled \/ ~a.isNone

\* an analyzer that stops using UDPipe after a call whose fetch failed
UseUDPipe_AfterFailure(a) == udpipe_enabled /\ fetch_status # "raised"

\* `if self.udpipe_enabled`
UseUDPipe(a) == udpipe_enabled

\* a fetch that ignores the supplied annotation
NeedsFetch_Always(a) == TRUE

\* `if not udpipe_output`, which takes the empty string for no annotation
NeedsFetch_IfFalsy(a) == a.isNone \/ a.val = <<>>

\* `if udpipe_output is None`
NeedsFetch(a) == a.isNone

\* analyze(text, udpipe_output, include_ner, include_lemmatization) up to its
\* first component call; remember says whether the history variable hist
\* records the call that has just returned, and hist.between whether a call
\* was made after the one it records and before the current one
Call(t, a, ner, lem, remember) ==
    /\ pc = "idle"
    /\ text' = t
    /\ arg_output' = a
    /\ udpipe_output' = a
    /\ include_ner' = ner
    /\ include_lemmatization' = lem
    /\ hist' = IF remember /\ returned THEN Summary
               ELSE IF hist.valid THEN [hist EXCEPT !.between = TRUE]
               ELSE hist
    /\ sentences' = <<>>
    /\ attempt' = 0
    /\ requests' = 0
    /\ waited' = 0
    /\ last_outcome' = "none"
    /\ IF IsBlank(t)
       THEN /\ result' = _get_empty_metrics
            /\ returned' = TRUE
            /\ metrics' = EmptyDict
            /\ calls' = NoCalls
            /\ fetch_status' = "none"
            /\ pc' = "idle"
       ELSE /\ UNCHANGED <<result, returned>>
            /\ IF UseUDPipe(a)
               THEN /\ metrics' = EmptyDict
                    /\ IF NeedsFetch(a)
                       THEN /\ calls' = [NoCalls EXCEPT !.fetch = 1]
                            /\ fetch_status' = IF max_retries > 0 THEN "running" ELSE "raised"
                            /\ pc' = IF max_retries > 0 THEN "request" ELSE "except"
                       ELSE /\ calls' = NoCalls
                            /\ fetch_status' = "none"
                            /\ pc' = "parse"
               ELSE /\ metrics' = UDPipeDisabledDefaults
                    /\ calls' = NoCalls
                    /\ fetch_status' = "none"
                    /\ pc' = "stylometric"
    /\ UNCHANGED <<udpipe_enabled, outside>>

\* the test off by one: a sleep after the last attempt
RetriesLeft_OffByOne == attempt < max_retries

\* `if attempt < self.max_retries - 1` in the except clauses
RetriesLeft == attempt < max_retries - 1

\* a client whose protocol errors are raised past the retry handlers
AttemptFailed_ProtocolFatal(kind) ==
    /\ pc = "request"
    /\ requests' = requests + 1
    /\ last_outcome' = kind
    /\ IF RetriesLeft /\ kind \notin ProtocolErrors
       THEN /\ pc' = "sleep"
            /\ UNCHANGED fetch_status
       ELSE /\ pc' = "except"
            /\ fetch_status' = "raised"
    /\ UNCHANGED outside
    /\ UNCHANGED <<udpipe_enabled, text, arg_output, include_ner,
                   include_lemmatization, udpipe_output, sentences, metrics,
                   attempt, waited, calls, returned, result, hist>>

\* an attempt that raises inside the try: every except clause sleeps and
\* continues while retries are left, and raises on the last attempt
AttemptFailed(kind) ==
    /\ pc = "request"
    /\ requests' = requests + 1
    /\ last_outcome' = kind
    /\ IF RetriesLeft
       THEN /\ pc' = "sleep"
            /\ UNCHANGED fetch_status
       ELSE /\ pc' = "except"
            /\ fetch_status' = "raised"
    /\ UNCHANGED outside
    /\ UNCHANGED <<udpipe_enabled, text, arg_output, include_ner,
                   include_lemmatization, udpipe_output, sentences, metrics,
                   attempt, waited, calls, returned, result, hist>>

\* requests.post answers 200 with a result field
RequestOk(r) ==
    /\ pc = "request"
    /\ requests' = requests + 1
    /\ last_outcome' = "ok"
    /\ udpipe_output' = Some(r)
    /\ fetch_status' = "ok"
    /\ pc' = "parse"
    /\ UNCHANGED outside
    /\ UNCHANGED <<udpipe_enabled, text, arg_output, include_ner,
                   include_lemmatization, sentences, metrics, attempt, waited,
                   calls, returned, result, hist>>

\* requests.exceptions.Timeout
RequestTimeout == AttemptFailed("timeout")

\* requests.exceptions.RequestException
RequestException == AttemptFailed("request_exception")

\* status_code != 200: raise Exception inside the try
RequestHTTPError == AttemptFailed("http_error")

\* "result" not in response_json: raise Exception inside the try
RequestNoResult == AttemptFailed("no_result")

\* time.sleep(self.retry_delay); continue: the next iteration of
\* `for attempt in range(self.max_retries)`, or the raise after the loop
Sleep ==
    /\ pc = "sleep"
    /\ waited' = waited + retry_delay
    /\ attempt' = attempt + 1
    /\ IF attempt + 1 < max_retries
       THEN /\ pc' = "request"
            /\ UNCHANGED fetch_status
       ELSE /\ pc' = "except"
            /\ fetch_status' = "raised"
    /\ UNCHANGED outside
    /\ UNCHANGED <<udpipe_enabled, text, arg_output, include_ner,
                   include_lemmatization, udpipe_output, sentences, metrics,
                   requests, last_outcome, calls, returned, result, hist>>

\* sentences = self.udpipe_client.parse_response(udpipe_output)
Parse ==
    /\ pc = "parse"
    /\ calls' = [calls EXCEPT !.parse = @ + 1]
    /\ IF ParseRaises(udpipe_output.val)
       THEN /\ pc' = "except"
            /\ UNCHANGED sentences
       ELSE /\ pc' = "complexity"
            /\ sentences' = parse_response(udpipe_output.val)
    /\ UNCHANGED outside
    /\ UNCHANGED <<udpipe_enabled, text, arg_output, include_ner,
                   include_lemmatization, udpipe_output, metrics, attempt,
                   requests, waited, last_outcome, fetch_status, returned,
                   result, hist>>

\* a complexity analyzer whose failure on the sentences reaches the except
\* clause of analyze
Complexity_Propagates ==
    /\ pc = "complexity"
    /\ calls' = [calls EXCEPT !.complexity = @ + 1]
    /\ LET m == Update(metrics, LinguisticComplexityAnalyzer_analyze(sentences))
       IN  IF Len(sentences) > 0 /\ _analyze_sentences_raises(sentences)
           THEN /\ metrics' = metrics
                /\ pc' = "except"
           ELSE IF include_lemmatization
           THEN /\ metrics' = m
                /\ pc' = "lemmas"
           ELSE /\ metrics' = Update(m, [lemmas |-> ""])
                /\ pc' = "stylometric"
    /\ UNCHANGED outside
    /\ UNCHANGED <<udpipe_enabled, text, arg_output, include_ner,
                   include_lemmatization, udpipe_output, sentences, attempt,
                   requests, waited, last_outcome, fetch_status, returned,
                   result, hist>>

\* metrics.update(self.linguistic_complexity.analyze(sentences)), then the
\* test of include_lemmatization
Complexity ==
    /\ pc = "complexity"
    /\ calls' = [calls EXCEPT !.complexity = @ + 1]
    /\ LET m == Update(metrics, LinguisticComplexityAnalyzer_analyze(sentences))
       IN  IF include_lemmatization
           THEN /\ metrics' = m
                /\ pc' = "lemmas"
           ELSE /\ metrics' = Update(m, [lemmas |-> ""])
                /\ pc' = "stylometric"
    /\ UNCHANGED outside
    /\ UNCHANGED <<udpipe_enabled, text, arg_output, include_ner,
                   include_lemmatization, udpipe_output, sentences, attempt,
                   requests, waited, last_outcome, fetch_status, returned,
                   result, hist>>

\* the argument as passed, not the local variable the fetch assigned
LemmatizerArgument_AsPassed == arg_output

\* the annotation the orchestrator hands to the lemmatizer
LemmatizerArgument == udpipe_output

\* metrics.update(self.lemmatizer.analyze(text, udpipe_output)); the
\* lemmatizer fetches with its own client when it is handed None
Lemmatize ==
    /\ pc = "lemmas"
    /\ LET a == LemmatizerArgument
       IN  IF a.isNone
           THEN /\ calls' = [calls EXCEPT !.lemmatizer = @ + 1,
                                          !.lemmatizer_fetch = @ + 1]
                /\ \E r \in Annotations \cup {<<<<"raised">>>>} :
                       metrics' = Update(metrics, LemmatizerAnalyzer_lemmas(text, r))
           ELSE /\ calls' = [calls EXCEPT !.lemmatizer = @ + 1]
                /\ metrics' = Update(metrics, LemmatizerAnalyzer_lemmas(text, a.val))
    /\ pc' = "stylometric"
    /\ UNCHANGED outside
    /\ UNCHANGED <<udpipe_enabled, text, arg_output, include_ner,
                   include_lemmatization, udpipe_output, sentences, attempt,
                   requests, waited, last_outcome, fetch_status, returned,
                   result, hist>>

\* an override that resets the whole stylometric subset
NerOverride_DropsAll(stylometric_metrics, ner) ==
    IF ~ner THEN _get_stylometric_metrics ELSE stylometric_metrics

\* an override that does not look at include_ner
NerOverride_Always(stylometric_metrics, ner) ==
    Update(stylometric_metrics, [k \in NerKeys |-> 0])

\* the NER override of analyze
NerOverride(stylometric_metrics, ner) ==
    IF ~ner
    THEN Update(stylometric_metrics, [k \in NerKeys |-> 0])
    ELSE stylometric_metrics

\* stylometric_metrics = self.stylometric.analyze(text), the NER override,
\* metrics.update(stylometric_metrics) and return metrics
Stylometric ==
    /\ pc = "stylometric"
    /\ calls' = [calls EXCEPT !.stylometric = @ + 1]
    /\ LET stylometric_metrics ==
               NerOverride(StylometricAnalyzer_analyze(text), include_ner)
       IN  /\ metrics' = Update(metrics, stylometric_metrics)
           /\ result' = metrics'
    /\ returned' = TRUE
    /\ pc' = "idle"
    /\ UNCHANGED outside
    /\ UNCHANGED <<udpipe_enabled, text, arg_output, include_ner,
                   include_lemmatization, udpipe_output, sentences, attempt,
                   requests, waited, last_outcome, fetch_status, hist>>

\* an except clause that returns what was merged so far
ExceptResult_Partial == Update([k \in UDPipeKeys |-> 0], metrics)

\* what the except clause of analyze returns
ExceptResult == _get_empty_metrics

\* except Exception: return self._get_empty_metrics()
Except ==
    /\ pc = "except"
    /\ result' = ExceptResult
    /\ returned' = TRUE
    /\ pc' = "idle"
    /\ UNCHANGED outside
    /\ UNCHANGED <<udpipe_enabled, text, arg_output, include_ner,
                   include_lemmatization, udpipe_output, sentences, metrics,
                   attempt, requests, waited, last_outcome, fetch_status,
                   calls, hist>>

OptAnnotations == {NoneStr} \cup {Some(a) : a \in Annotations}

Analyze ==
    \E t \in Texts, a \in OptAnnotations, ner \in BOOLEAN, lem \in BOOLEAN :
        Call(t, a, ner, lem, FALSE)

\* the same call, remembered by the next one for the two-call properties
AnalyzeAgain ==
    \E t \in Texts, a \in OptAnnotations, ner \in BOOLEAN, lem \in BOOLEAN :
        Call(t, a, ner, lem, TRUE)

Step ==
    \/ \E r \in Annotations : RequestOk(r)
    \/ RequestTimeout
    \/ RequestException
    \/ RequestHTTPError
    \/ RequestNoResult
    \/ Sleep
    \/ Parse
    \/ Complexity
    \/ Lemmatize
    \/ Stylometric
    \/ Except

Next == Analyze \/ Step

Spec == Init /\ [][Next]_vars

NextTwoCalls == AnalyzeAgain \/ Step

SpecTwoCalls == Init /\ [][NextTwoCalls]_vars

\* the inputs of the calls of a longer sequence: a blank text, a text that
\* spaCy processes and one it rejects; no annotation, a good and a bad one
RecallTexts == {TEXT_BLANK, TEXT_A, TEXT_LONG}

RecallAnnotations == {NoneStr, Some(CONLLU_OK), Some(CONLLU_BAD)}

\* a call of a longer sequence: hist keeps an earlier call or takes the one
\* that has just returned, so that any number of calls lie between the
\* remembered call and the current one
AnalyzeLater ==
    \E t \in RecallTexts, a \in RecallAnnotations, ner \in BOOLEAN,
       lem \in BOOLEAN, remember \in BOOLEAN :
        Call(t, a, ner, lem, remember)

NextRecall == AnalyzeLater \/ Step

SpecRecall == Init /\ [][NextRecall]_vars

----------------------------------------------------------------------------
(* The thread pool of the batch driver: _execute_parallel submits one       *)
(* _analyze_row per row, and at most n_workers of them run at a time on    *)
(* the one shared TextMetricsAnalyzer.  A task is interleaved with the      *)
(* others at its accesses to the shared client.                            *)

\* workers of the pool
n_workers == 2

\* rows handed to the pool
NRows == 2

\* (text, udpipe_output) of a row: two rows to annotate by the service and
\* one that brings its annotation
RowInputs ==
    {<<TEXT_A, NoneStr>>, <<TEXT_B, NoneStr>>, <<TEXT_A, Some(CONLLU_OK)>>}

\* the annotation the service returns for a message: the service is a
\* function of the request
udpipe_process(message) ==
    IF message = TEXT_A THEN CONLLU_OK
    ELSE IF message = TEXT_B THEN CONLLU_TWO_ROOTS
    ELSE CONLLU_EMPTY

\* the record analyze returns, as a function of its arguments and of the
\* annotation it worked on: the supplied one, the fetched one, or None when
\* the fetch raised
analyze_returns(enabled, t, used, ner, lem) ==
    IF IsBlank(t) THEN _get_empty_metrics
    ELSE LET stylometric_metrics ==
                 NerOverride(StylometricAnalyzer_analyze(t), ner)
         IN  IF ~enabled
             THEN Update(UDPipeDisabledDefaults, stylometric_metrics)
             ELSE IF used.isNone THEN ExceptResult
             ELSE IF ParseRaises(used.val) THEN ExceptResult
             ELSE LET m1 == LinguisticComplexityAnalyzer_analyze(
                                parse_response(used.val))
                      m2 == IF lem
                            THEN LemmatizerAnalyzer_lemmas(t, used.val)
                            ELSE [lemmas |-> ""]
                  IN  Update(Update(m1, m2), stylometric_metrics)

NoParam == [ref |-> "none", val |-> EmptyDict]

\* a request_param that is the client's own dict, not a copy of it
CopyMetadata_Alias == [ref |-> "shared", val |-> EmptyDict]

\* request_param = self.data_metadata.copy()
CopyMetadata == [ref |-> "local", val |-> data_metadata]

\* the dict a task's request_param names
Deref(request_param) ==
    IF request_param.ref = "shared" THEN data_metadata ELSE request_param.val

Running(i) == tasks[i].pc \notin {"queued", "done"}

\* the rows are submitted: every task is queued
InitPool ==
    /\ udpipe_enabled \in BOOLEAN
    /\ NoCallYet
    /\ NoUnitCall
    /\ NoBatch
    /\ data_metadata = DataMetadata
    /\ posted = {}
    /\ tasks \in [1..NRows ->
                    {[pc |-> "queued", text |-> r[1], udpipe_output |-> r[2],
                      request_param |-> NoParam, attempt |-> 0,
                      fetch_status |-> "none", metrics |-> EmptyDict] :
                     r \in RowInputs}]

\* a task leaves analyze with the record of the annotation used
Return(i, used, status) ==
    [tasks EXCEPT ![i].pc = "done",
                  ![i].fetch_status = status,
                  ![i].metrics = analyze_returns(udpipe_enabled, tasks[i].text,
                                                 used, TRUE, TRUE)]

\* a free worker takes the task: _analyze_row calls analyze, which runs to
\* its return or to the client's first request
StartTask(i) ==
    /\ tasks[i].pc = "queued"
    /\ Cardinality({j \in DOMAIN tasks : Running(j)}) < n_workers
    /\ tasks' = IF \/ IsBlank(tasks[i].text)
                   \/ ~UseUDPipe(tasks[i].udpipe_output)
                   \/ ~NeedsFetch(tasks[i].udpipe_output)
                THEN Return(i, tasks[i].udpipe_output, "none")
                ELSE [tasks EXCEPT ![i].pc = "copy",
                                   ![i].fetch_status = "running"]
    /\ UNCHANGED <<data_metadata, posted, call_vars, unit_vars, batch_vars>>

\* request_param = self.data_metadata.copy()
CopyTask(i) ==
    /\ tasks[i].pc = "copy"
    /\ tasks' = [tasks EXCEPT ![i].pc = "set_data",
                              ![i].request_param = CopyMetadata]
    /\ UNCHANGED <<data_metadata, posted, call_vars, unit_vars, batch_vars>>

\* request_param["data"] = message
SetDataTask(i) ==
    /\ tasks[i].pc = "set_data"
    /\ LET d == Update(Deref(tasks[i].request_param),
                       [data |-> tasks[i].text])
       IN  IF tasks[i].request_param.ref = "shared"
           THEN /\ data_metadata' = d
                /\ tasks' = [tasks EXCEPT ![i].pc = "post"]
           ELSE /\ data_metadata' = data_metadata
                /\ tasks' = [tasks EXCEPT ![i].pc = "post",
                                          ![i].request_param.val = d]
    /\ UNCHANGED <<posted, call_vars, unit_vars, batch_vars>>

\* requests.post(self.url, data=request_param, timeout=30) answered with a
\* result: the rest of analyze runs on it
PostOkTask(i) ==
    /\ tasks[i].pc = "post"
    /\ LET request == Deref(tasks[i].request_param)
       IN  /\ posted' = posted \cup {[idx |-> i, request |-> request]}
           /\ tasks' = Return(i, Some(udpipe_process(request["data"])), "ok")
    /\ UNCHANGED <<data_metadata, call_vars, unit_vars, batch_vars>>

\* the request fails: the next attempt after the sleep, or the raise that
\* analyze turns into the all-default record
PostFailsTask(i) ==
    /\ tasks[i].pc = "post"
    /\ posted' = posted \cup
                     {[idx |-> i, request |-> Deref(tasks[i].request_param)]}
    /\ tasks' = IF tasks[i].attempt < max_retries - 1
                THEN [tasks EXCEPT ![i].pc = "copy", ![i].attempt = @ + 1]
                ELSE Return(i, NoneStr, "raised")
    /\ UNCHANGED <<data_metadata, call_vars, unit_vars, batch_vars>>

NextPool ==
    \/ \E i \in DOMAIN tasks : StartTask(i)
    \/ \E i \in DOMAIN tasks : CopyTask(i)
    \/ \E i \in DOMAIN tasks : SetDataTask(i)
    \/ \E i \in DOMAIN tasks : PostOkTask(i)
    \/ \E i \in DOMAIN tasks : PostFailsTask(i)

SpecPool == InitPool /\ [][NextPool]_vars

----------------------------------------------------------------------------
(* The component functions called on their own: arg is drawn from bounded  *)
(* sets of words, sentence collections, spaCy documents and (text,         *)
(* annotation) pairs, and one call is made on it.                          *)

\* characters of a word
MaxWordLen == 3

\* tokens of a sentence
MaxTokens == 2

\* sentences of a collection or of a document
MaxSents == 2

\* tokens of a document
MaxDocTokens == 3

\* a vowel, two vowels that close diphthongs, a consonant, an accented
\* vowel, an upper-case vowel, a blank and a digit
WordChars == {"a", "i", "u", "c", "a_tilde", "A", " ", "1"}

WORD_CASA == <<"c", "a", "s", "a">>

WORD_NAO == <<"n", "a_tilde", "o">>

Words ==
    UNION {[1..n -> WordChars] : n \in 0..MaxWordLen} \cup {WORD_CASA, WORD_NAO}

D_nummod_gov == D_nummod \o <<":", "g", "o", "v">>

\* a lexical and a non-lexical tag
UposTags == {"NOUN", "PUNCT"}

\* the two relations the lemma filter drops, a subtyped one, a dependent
\* clause, another clause and a coordination
Deprels == {D_punct, D_nummod, D_nummod_gov, D_acl, D_xcomp, D_conj}

WordForms == <<"gato", "ver">>

WordLemmas == <<"gato", "ver">>

Token(i, head, upos, deprel, w) ==
    [id |-> i, form |-> WordForms[w], lemma |-> WordLemmas[w], upos |-> upos,
     head |-> head, deprel |-> deprel]

TokenLabels == [upos : UposTags, deprel : Deprels, w : 1..Len(WordForms)]

\* one sentence of every combination of tags, relations and words, each
\* token the child of the one before it
LabelledSentences ==
    UNION {{[i \in 1..n |-> Token(i, i - 1, lab[i].upos, lab[i].deprel, lab[i].w)] :
                lab \in [1..n -> TokenLabels]} : n \in 1..MaxTokens}

\* tokens of a sentence whose tree shape or relation labels vary: one more,
\* so that a tree has a grandchild
MaxTreeTokens == MaxTokens + 1

D_punct_x == D_punct \o <<":", "x">>

D_advcl_tmod == D_advcl \o <<":", "t", "m", "o", "d">>

\* punctuation plain and subtyped, a plain argument, every clause relation
\* (one of them subtyped) and both coordination relations
Relations ==
    {D_punct, D_punct_x, D_nsubj, D_csubj, D_ccomp, D_xcomp, D_advcl_tmod,
     D_acl, D_conj, D_cc}

\* one sentence of every combination of relations, of nouns, each token the
\* child of the one before it
RelationSentences ==
    UNION {{[i \in 1..n |-> Token(i, i - 1, "NOUN", rel[i], (i % Len(WordForms)) + 1)] :
                rel \in [1..n -> Relations]} : n \in 1..MaxTreeTokens}

\* the heads of the tokens of one sentence: no root, one or several, and
\* every tree shape
HeadVectors == UNION {[1..n -> 0..n] : n \in 1..MaxTreeTokens}

\* the k-th sentence of a collection, of plain tokens with the given heads
ShapedSentence(k, heads) ==
    [i \in 1..Len(heads) |->
        Token(i, heads[i], "NOUN", D_nsubj, ((i + k) % Len(WordForms)) + 1)]

\* no sentence, or up to MaxSents sentences of which one has any heads and
\* the others are single root tokens
ShapedCollections ==
    {<<>>} \cup
    UNION {{[k \in 1..n |-> ShapedSentence(k, IF k = j THEN heads ELSE <<0>>)] :
                j \in 1..n, heads \in HeadVectors} : n \in 1..MaxSents}

SentenceCollections ==
    {<<sent>> : sent \in LabelledSentences \cup RelationSentences}
        \cup ShapedCollections

\* tokens of a document: two words, a punctuation mark and a space
DocTokens ==
    {[text |-> <<"a">>, pos |-> "DET", is_punct |-> FALSE, is_space |-> FALSE, sent |-> 1],
     [text |-> WORD_CASA, pos |-> "NOUN", is_punct |-> FALSE, is_space |-> FALSE, sent |-> 1],
     [text |-> <<".">>, pos |-> "PUNCT", is_punct |-> TRUE, is_space |-> FALSE, sent |-> 1],
     [text |-> <<" ">>, pos |-> "SPACE", is_punct |-> FALSE, is_space |-> TRUE, sent |-> 1]}

\* ten words of two syllables in one sentence
DOC_TEN ==
    [tokens |-> [i \in 1..10 |->
                    [text |-> WORD_CASA, pos |-> "NOUN", is_punct |-> FALSE,
                     is_space |-> FALSE, sent |-> 1]],
     nsents |-> 1, ents |-> <<>>]

\* the empty document has no sentence, the others one or more
Docs ==
    {[tokens |-> ts, nsents |-> n, ents |-> <<>>] :
        ts \in UNION {[1..m -> DocTokens] : m \in 1..MaxDocTokens},
        n \in 1..MaxSents}
    \cup {DOC_OTHER, DOC_TEN}

\* the (text, udpipe_output) pairs of the analyzers that take a text, with
\* the place for what their own fetch returned
TextInputs ==
    {[text |-> t, udpipe_output |-> a, fetched |-> NoneStr] :
        t \in Texts, a \in OptAnnotations}

InitUnit ==
    /\ udpipe_enabled = TRUE
    /\ NoCallYet
    /\ NoPool
    /\ NoBatch
    /\ fn = "none"
    /\ \/ \E w \in Words : arg = [kind |-> "word", val |-> w]
       \/ \E c \in SentenceCollections : arg = [kind |-> "sentences", val |-> c]
       \/ \E d \in Docs : arg = [kind |-> "doc", val |-> d]
       \/ \E t \in TextInputs : arg = [kind |-> "text", val |-> t]
    /\ ret = <<>>

\* BaseAnalyzer._count_syllables_pt(word)
CallCountSyllables ==
    /\ fn = "none" /\ arg.kind = "word"
    /\ fn' = "_count_syllables_pt"
    /\ ret' = _count_syllables_pt(arg.val)
    /\ UNCHANGED <<arg, call_vars, pool_vars, batch_vars>>

\* LinguisticComplexityAnalyzer.analyze(sentences)
CallComplexityAnalyze ==
    /\ fn = "none" /\ arg.kind = "sentences"
    /\ fn' = "LinguisticComplexityAnalyzer.analyze"
    /\ ret' = LinguisticComplexityAnalyzer_analyze(arg.val)
    /\ UNCHANGED <<arg, call_vars, pool_vars, batch_vars>>

\* extract_lemmas_string(sentences)
CallExtractLemmas ==
    /\ fn = "none" /\ arg.kind = "sentences"
    /\ fn' = "extract_lemmas_string"
    /\ ret' = extract_lemmas_string(arg.val)
    /\ UNCHANGED <<arg, call_vars, pool_vars, batch_vars>>

\* StylometricAnalyzer._calculate_flesch_reading_ease(text, doc); the text
\* is not read
CallFlesch ==
    /\ fn = "none" /\ arg.kind = "doc"
    /\ fn' = "_calculate_flesch_reading_ease"
    /\ LET f == fre_score(arg.val)
       IN  ret' \in {_calculate_flesch_reading_ease(<<>>, arg.val)} \cup
                    (IF f.den > 0 THEN round_ties(f.num, f.den) ELSE {})
    /\ UNCHANGED <<arg, call_vars, pool_vars, batch_vars>>

\* LemmatizerAnalyzer.analyze(text, udpipe_output); handed None for a text
\* that is not blank, it fetches with its own client, and the fetch returns
\* an annotation or raises
CallLemmatizerAnalyze ==
    /\ fn = "none" /\ arg.kind = "text"
    /\ fn' = "LemmatizerAnalyzer.analyze"
    /\ IF arg.val.udpipe_output.isNone /\ ~IsBlank(arg.val.text)
       THEN \E r \in Annotations \cup {<<<<"raised">>>>} :
                /\ arg' = [arg EXCEPT !.val.fetched = Some(r)]
                /\ ret' = LemmatizerAnalyzer_lemmas(arg.val.text, r)
       ELSE /\ arg' = arg
            /\ ret' = LemmatizerAnalyzer_lemmas(arg.val.text,
                                                arg.val.udpipe_output.val)
    /\ UNCHANGED <<call_vars, pool_vars, batch_vars>>

\* StylometricAnalyzer.analyze(text)
CallStylometricAnalyze ==
    /\ fn = "none" /\ arg.kind = "text"
    /\ fn' = "StylometricAnalyzer.analyze"
    /\ ret' = StylometricAnalyzer_analyze(arg.val.text)
    /\ UNCHANGED <<arg, call_vars, pool_vars, batch_vars>>

NextUnit ==
    \/ CallCountSyllables
    \/ CallComplexityAnalyze
    \/ CallExtractLemmas
    \/ CallFlesch
    \/ CallLemmatizerAnalyze
    \/ CallStylometricAnalyze

SpecUnit == InitUnit /\ [][NextUnit]_vars

----------------------------------------------------------------------------
(* ParquetMetricsEnricher: a run of enrich_parquet on a dataframe and a     *)
(* second run on the same input, by a new enricher with the same settings   *)
(* and any of the three methods.  The analyzer is the one initialize_       *)
(* analyzer builds (dependency-parse mode on) and the service answers, so   *)
(* the record of a row is a function of the row.                            *)

\* cells of a row: None, the float NaN, a string, or no such key
PyNone == [type |-> "NoneType", val |-> <<>>]

PyNaN == [type |-> "float", val |-> <<>>]

PyStr(s) == [type |-> "str", val |-> s]

PyAbsent == [type |-> "absent", val |-> <<>>]

\* row.get(column, '')
row_get(cell) == IF cell.type = "absent" THEN PyStr(<<>>) ELSE cell

\* bool(v): None and "" are false, NaN and the other strings true
truthy(v) == IF v.type = "str" THEN Len(v.val) > 0 ELSE v.type = "float"

\* isinstance(v, float) and pd.isna(v)
is_nan(v) == v.type = "float"

\* the string "nan" as an annotation: one line without tabs
STR_nan == <<<<"nan">>>>

STR_NaN == <<<<"NaN">>>>

\* str(v) of a string or of the float NaN
str(v) == IF v.type = "str" THEN v.val ELSE STR_nan

\* `not text or (isinstance(text, float) and pd.isna(text))`
skips_row(text_cell) == ~truthy(text_cell) \/ is_nan(text_cell)

\* the two statements that turn the cell into the argument of analyze, in
\* _process_row
_process_row_annotation(cell) ==
    LET s == IF truthy(cell) THEN Some(str(cell)) ELSE NoneStr
    IN  IF /\ ~s.isNone /\ Len(s.val) > 0
           /\ (Len(s.val) = 0 \/ s.val = STR_nan \/ s.val = <<>>)
        THEN NoneStr
        ELSE s

\* a normalisation that only looks at the truth value of the cell
_analyze_row_annotation_Truthy(cell) ==
    IF truthy(cell) THEN Some(str(cell)) ELSE NoneStr

\* the same two statements in _analyze_row
_analyze_row_annotation(cell) ==
    LET s == IF truthy(cell) THEN Some(str(cell)) ELSE NoneStr
    IN  IF /\ ~s.isNone /\ Len(s.val) > 0
           /\ (Len(s.val) = 0 \/ s.val = STR_nan \/ s.val = <<>>)
        THEN NoneStr
        ELSE s

\* self.metrics_analyzer.analyze(text, udpipe_output=udpipe_output,
\* include_ner=True, include_lemmatization=True)
metrics_analyzer_analyze(t, a) ==
    analyze_returns(TRUE, t,
                    IF NeedsFetch(a) THEN Some(udpipe_process(t)) ELSE a,
                    TRUE, TRUE)

NotCalled == [called |-> FALSE, text |-> <<>>, udpipe_output |-> NoneStr]

\* _process_row: the record, what it adds to the two counters and the call
\* of analyze it made; analyze raises nothing, so the except clause is dead
_process_row(text_cell, udpipe_cell) ==
    IF skips_row(text_cell)
    THEN [metrics |-> _get_empty_metrics, processed |-> 0, failed |-> 1,
          call |-> NotCalled]
    ELSE LET a == _process_row_annotation(udpipe_cell)
         IN  [metrics |-> metrics_analyzer_analyze(str(text_cell), a),
              processed |-> 1, failed |-> 0,
              call |-> [called |-> TRUE, text |-> str(text_cell),
                        udpipe_output |-> a]]

\* _analyze_row: the record and the call of analyze it made
_analyze_row(text_cell, udpipe_cell) ==
    IF skips_row(text_cell)
    THEN [metrics |-> _get_empty_metrics, call |-> NotCalled]
    ELSE LET a == _analyze_row_annotation(udpipe_cell)
         IN  [metrics |-> metrics_analyzer_analyze(str(text_cell), a),
              call |-> [called |-> TRUE, text |-> str(text_cell),
                        udpipe_output |-> a]]

\* None as an entry of metrics_list
NoMetrics == [None |-> TRUE]

\* `metrics is not None and metrics != self.metrics_analyzer._get_empty_metrics()`
counts_as_processed(m) == m # NoMetrics /\ m # _get_empty_metrics

Methods == {"sequential", "thread", "process"}

\* --checkpoint_interval: every row, every second row
CheckpointIntervals == {1, 2}

\* the times a run can start at: the second of the first run or a later one
JobIds == {0, 1}

\* rows of the dataframe: a text with every kind of annotation cell, and
\* the cells of the text column that make the driver skip the row
BatchRows ==
    {[text |-> PyStr(TEXT_A), udpipe |-> u] :
        u \in {PyNone, PyNaN, PyAbsent, PyStr(<<>>), PyStr(STR_nan),
               PyStr(STR_NaN), PyStr(CONLLU_OK), PyStr(CONLLU_BAD)}}
    \cup {[text |-> PyStr(TEXT_EMPTY), udpipe |-> PyStr(CONLLU_OK)],
          [text |-> PyNaN, udpipe |-> PyNone]}

\* the rows after the first: one whose record is computed and one whose
\* annotation makes analyze return the all-default record
FillerRows ==
    {[text |-> PyStr(TEXT_A), udpipe |-> PyStr(CONLLU_OK)],
     [text |-> PyStr(TEXT_A), udpipe |-> PyStr(CONLLU_BAD)]}

DataFrames ==
    {d \in [1..NRows -> BatchRows] : \A i \in 2..NRows : d[i] \in FillerRows}

\* what _process_row and _analyze_row do on a row, the cells read with
\* row.get(text_column, '') and row.get(udpipe_column, '')
RowOutcomes(r) ==
    [sequential |-> _process_row(row_get(r.text), row_get(r.udpipe)),
     parallel |-> _analyze_row(row_get(r.text), row_get(r.udpipe))]

NoFile == [exists |-> FALSE]

\* the pickled list and the metadata of a checkpoint
File(list, metadata) ==
    [exists |-> TRUE, metrics_list |-> list, metadata |-> metadata]

\* _save_checkpoint
_save_checkpoint(dir, job_id, list, metadata) ==
    IF checkpoint_interval = 0 THEN dir
    ELSE [dir EXCEPT ![job_id] = File(list, metadata)]

\* _load_checkpoint
_load_checkpoint(job_id) == checkpoint_dir[job_id]

\* _cleanup_checkpoint
_cleanup_checkpoint(dir, job_id) == [dir EXCEPT ![job_id] = NoFile]

\* the first None entry of the list, counted from 0; Len(list) when none
FirstNone(list) ==
    IF \E i \in 1..Len(list) : list[i] = NoMetrics
    THEN (CHOOSE i \in 1..Len(list) :
              /\ list[i] = NoMetrics
              /\ \A j \in 1..(i - 1) : list[j] # NoMetrics) - 1
    ELSE Len(list)

\* the run as the next one will remember it
RunSummary(ended) ==
    [valid |-> TRUE, job_id |-> current_job_id,
     parallel_method |-> parallel_method, ended |-> ended,
     metrics_list |-> metrics_list, processed_count |-> processed_count,
     failed_count |-> failed_count, disturbed |-> disturbed,
     checkpoint |-> checkpoint_dir[current_job_id]]

\* a new enricher, and the dataframe of the input file
InitBatch ==
    /\ udpipe_enabled = TRUE
    /\ NoCallYet
    /\ NoPool
    /\ NoUnitCall
    /\ df \in DataFrames
    /\ row_outcomes = [i \in 1..Len(df) |-> RowOutcomes(df[i])]
    /\ parallel_method \in Methods
    /\ checkpoint_interval \in CheckpointIntervals
    /\ resume \in BOOLEAN
    /\ clock = 0
    /\ current_job_id = 0
    /\ checkpoint_dir = [j \in JobIds |-> NoFile]
    /\ metrics_list = <<>>
    /\ processed_count = 0
    /\ failed_count = 0
    /\ start_idx = 0
    /\ idx = 0
    /\ processed_since_checkpoint = 0
    /\ phase = "init"
    /\ run = "none"
    /\ passed = <<>>
    /\ loaded = NoFile
    /\ disturbed = FALSE
    /\ previous = [valid |-> FALSE]

\* enrich_parquet up to the execution strategy of _compute_metrics: the job
\* id from the clock, the checkpoint if resume asks for one and the file is
\* there, the counters from its metadata, the list and start_idx
StartRun(now) ==
    LET file     == IF resume /\ checkpoint_interval > 0
                    THEN _load_checkpoint(now)
                    ELSE NoFile
        list     == IF file.exists THEN file.metrics_list
                    ELSE [i \in 1..Len(df) |-> NoMetrics]
        computed == file.exists /\ FirstNone(list) = Len(list)
    IN  /\ clock' = now
        /\ current_job_id' = now
        /\ loaded' = file
        /\ disturbed' = file.exists
        /\ metrics_list' = list
        /\ processed_count' = IF file.exists THEN file.metadata.processed ELSE 0
        /\ failed_count' = IF file.exists THEN file.metadata.failed ELSE 0
        /\ start_idx' = IF file.exists /\ ~computed THEN FirstNone(list) ELSE 0
        /\ idx' = start_idx'
        /\ processed_since_checkpoint' = 0
        /\ passed' = [i \in 1..Len(df) |-> NotCalled]
        /\ phase' = IF computed THEN "computed" ELSE "running"
        /\ UNCHANGED <<df, row_outcomes, checkpoint_interval, resume,
                       checkpoint_dir>>

\* the first run of the driver on the input file
Enrich ==
    /\ phase = "init"
    /\ StartRun(clock)
    /\ run' = "first"
    /\ UNCHANGED <<parallel_method, previous>>
    /\ UNCHANGED <<call_vars, pool_vars, unit_vars>>

Ended == phase \in {"done", "interrupted", "failed"}

\* the same command again, in the same second or later, with any method
EnrichAgain ==
    /\ Ended
    /\ run = "first"
    /\ \E method \in Methods, now \in {clock, clock + 1} :
           /\ parallel_method' = method
           /\ StartRun(now)
    /\ run' = "again"
    /\ previous' = RunSummary(phase)
    /\ UNCHANGED <<call_vars, pool_vars, unit_vars>>

\* one iteration of the loop of _execute_sequential: the row is skipped
\* when it has a record, else processed and the checkpoint saved every
\* checkpoint_interval rows; after the last row _compute_metrics returns
ProcessRow ==
    /\ phase = "running"
    /\ parallel_method = "sequential"
    /\ idx < Len(df)
    /\ IF metrics_list[idx + 1] # NoMetrics
       THEN UNCHANGED <<metrics_list, processed_count, failed_count, passed,
                        checkpoint_dir>>
       ELSE LET r == row_outcomes[idx + 1].sequential
            IN  /\ metrics_list' = [metrics_list EXCEPT ![idx + 1] = r.metrics]
                /\ processed_count' = processed_count + r.processed
                /\ failed_count' = failed_count + r.failed
                /\ passed' = [passed EXCEPT ![idx + 1] = r.call]
                /\ checkpoint_dir' =
                       IF /\ checkpoint_interval > 0
                          /\ (idx - start_idx + 1) % checkpoint_interval = 0
                       THEN _save_checkpoint(checkpoint_dir, current_job_id,
                                metrics_list',
                                [last_idx |-> idx,
                                 processed |-> processed_count',
                                 failed |-> failed_count'])
                       ELSE checkpoint_dir
    /\ idx' = idx + 1
    /\ phase' = IF idx + 1 = Len(df) THEN "computed" ELSE "running"
    /\ UNCHANGED <<df, row_outcomes, parallel_method, checkpoint_interval, resume,
                   clock, current_job_id, start_idx,
                   processed_since_checkpoint, run, loaded, disturbed,
                   previous>>
    /\ UNCHANGED <<call_vars, pool_vars, unit_vars>>

\* the rows _execute_parallel submits, counted from 0
RowsToProcess ==
    {i \in start_idx..(Len(df) - 1) : metrics_list[i + 1] = NoMetrics}

\* executor_class(max_workers=self.n_workers) raises (ValueError for a
\* --workers below 1) or a submit does (no thread or process can be
\* started): the outer except logs it and _compute_metrics returns with
\* no result collected
ExecutorRaises ==
    /\ phase = "running"
    /\ parallel_method \in {"thread", "process"}
    /\ processed_since_checkpoint = 0
    /\ phase' = "computed"
    /\ disturbed' = TRUE
    /\ UNCHANGED <<df, row_outcomes, parallel_method, checkpoint_interval, resume,
                   clock, current_job_id, checkpoint_dir, metrics_list,
                   processed_count, failed_count, start_idx, idx,
                   processed_since_checkpoint, run, passed, loaded, previous>>
    /\ UNCHANGED <<call_vars, pool_vars, unit_vars>>

\* the body of the as_completed loop after the record or the exception of
\* row i was stored: the checkpoint every checkpoint_interval results, and
\* the return of _compute_metrics after the last one
AfterResult(i) ==
    /\ processed_since_checkpoint' = processed_since_checkpoint + 1
    /\ checkpoint_dir' =
           IF /\ checkpoint_interval > 0
              /\ processed_since_checkpoint' % checkpoint_interval = 0
           THEN _save_checkpoint(checkpoint_dir, current_job_id, metrics_list',
                                 [processed |-> processed_count',
                                  failed |-> failed_count'])
           ELSE checkpoint_dir
    /\ phase' = IF RowsToProcess = {i} THEN "computed" ELSE "running"
    /\ UNCHANGED <<df, row_outcomes, parallel_method, checkpoint_interval, resume,
                   clock, current_job_id, start_idx, idx, run, loaded,
                   previous>>
    /\ UNCHANGED <<call_vars, pool_vars, unit_vars>>

\* the future of row i is the next to complete and returns the record of
\* _analyze_row
Collect(i) ==
    /\ phase = "running"
    /\ parallel_method \in {"thread", "process"}
    /\ i \in RowsToProcess
    /\ LET r == row_outcomes[i + 1].parallel
       IN  /\ metrics_list' = [metrics_list EXCEPT ![i + 1] = r.metrics]
           /\ IF counts_as_processed(r.metrics)
              THEN /\ processed_count' = processed_count + 1
                   /\ failed_count' = failed_count
              ELSE /\ processed_count' = processed_count
                   /\ failed_count' = failed_count + 1
           /\ passed' = [passed EXCEPT ![i + 1] = r.call]
    /\ disturbed' = disturbed
    /\ AfterResult(i)

\* the worker process of row i dies, and future.result() raises
CollectRaises(i) ==
    /\ phase = "running"
    /\ parallel_method = "process"
    /\ i \in RowsToProcess
    /\ metrics_list' = [metrics_list EXCEPT ![i + 1] = _get_empty_metrics]
    /\ processed_count' = processed_count
    /\ failed_count' = failed_count + 1
    /\ passed' = passed
    /\ disturbed' = TRUE
    /\ AfterResult(i)

\* enrich_parquet after _compute_metrics: the columns are added, the output
\* file written and the checkpoint deleted
Finish ==
    /\ phase = "computed"
    /\ phase' = "done"
    /\ checkpoint_dir' = _cleanup_checkpoint(checkpoint_dir, current_job_id)
    /\ UNCHANGED <<df, row_outcomes, parallel_method, checkpoint_interval, resume,
                   clock, current_job_id, metrics_list, processed_count,
                   failed_count, start_idx, idx, processed_since_checkpoint,
                   run, passed, loaded, disturbed, previous>>
    /\ UNCHANGED <<call_vars, pool_vars, unit_vars>>

\* pd.DataFrame, pd.concat or to_parquet raises: enrich_parquet returns
\* False and leaves the checkpoint
FinishRaises ==
    /\ phase = "computed"
    /\ phase' = "failed"
    /\ UNCHANGED <<df, row_outcomes, parallel_method, checkpoint_interval, resume,
                   clock, current_job_id, checkpoint_dir, metrics_list,
                   processed_count, failed_count, start_idx, idx,
                   processed_since_checkpoint, run, passed, loaded, disturbed,
                   previous>>
    /\ UNCHANGED <<call_vars, pool_vars, unit_vars>>

\* KeyboardInterrupt while the rows are computed
Interrupt ==
    /\ phase = "running"
    /\ phase' = "interrupted"
    /\ UNCHANGED <<df, row_outcomes, parallel_method, checkpoint_interval, resume,
                   clock, current_job_id, checkpoint_dir, metrics_list,
                   processed_count, failed_count, start_idx, idx,
                   processed_since_checkpoint, run, passed, loaded, disturbed,
                   previous>>
    /\ UNCHANGED <<call_vars, pool_vars, unit_vars>>

NextBatch ==
    \/ Enrich
    \/ EnrichAgain
    \/ ProcessRow
    \/ ExecutorRaises
    \/ \E i \in 0..(Len(df) - 1) : Collect(i)
    \/ \E i \in 0..(Len(df) - 1) : CollectRaises(i)
    \/ Finish
    \/ FinishRaises
    \/ Interrupt

SpecBatch == InitBatch /\ [][NextBatch]_vars

----------------------------------------------------------------------------
(* Properties of one call of analyze *)

\* the key set of the MetricsRecord, as the interface lists it
RecordKeys ==
    {"MLC", "MLS", "DCC", "CPC", "profundidade_media", "profundidade_max",
     "ttr", "lexical_density", "token_quantity", "noun_freq", "verb_freq",
     "adj_freq", "adv_freq", "avg_word_length", "long_words_ratio",
     "sentence_length_variance", "punctuation_ratio", "flesch_reading_ease",
     "per_count", "org_count", "loc_count", "lemmas"}

\* the full-default record: every numeric key 0 / 0.0 and lemmas ""
FullDefault == [k \in RecordKeys |-> IF k = "lemmas" THEN "" ELSE 0]

\* the text of the latest call is empty or whitespace-only
EmptyText == \A i \in 1..Len(text) : text[i] \in {" ", "\t", "\n", "\r"}

\* the latest call has returned and no call is in progress
Returned == pc = "idle" /\ returned

\* the fetch of the latest call raised, or the parse of its annotation did
FetchFailed == fetch_status = "raised"

ParseFailed == calls.parse > 0 /\ ParseRaises(udpipe_output.val)

\* C1: every record that analyze returns has exactly the 22 keys of the
\* interface, for every text, mode, annotation, fetch and parse outcome and
\* every value of the two flags.
C1_KeySet ==
    returned => /\ DOMAIN result = RecordKeys
                /\ Cardinality(DOMAIN result) = 22

\* C1 witness: records were returned on the fetched path with the lemmas
\* and NER switched off, and the record is not the default one
C1_Witness ==
    /\ Returned
    /\ udpipe_enabled
    /\ fetch_status = "ok"
    /\ ~include_ner /\ ~include_lemmatization
    /\ result.token_quantity > 0

\* C2: in dependency-parse mode with a non-empty text, when the fetch or the
\* parse of the annotation fails, analyze still returns, and what it returns
\* is the full-default record.
C2_FailureDegrades ==
    /\ (Returned /\ (FetchFailed \/ ParseFailed)) => result = FullDefault
    /\ pc = "except" => (FetchFailed \/ ParseFailed) /\ udpipe_enabled /\ ~EmptyText
    /\ (FetchFailed \/ (pc \notin {"parse"} /\ ParseFailed)) => pc \in {"except", "idle"}

\* C2 witness: a call whose fetch succeeded and whose parse failed has returned
C2_Witness ==
    /\ Returned
    /\ fetch_status = "ok"
    /\ ParseFailed
    /\ text = TEXT_A

C4_RetryBound ==
    /\ requests <= max_retries
    /\ attempt <= max_retries - 1
    /\ (fetch_status = "running" /\ pc = "request") =>
           requests = attempt /\ waited = retry_delay * attempt
    /\ pc = "sleep" =>
           /\ fetch_status = "running"
           /\ requests = attempt + 1
           /\ requests < max_retries
           /\ waited = retry_delay * attempt
    /\ fetch_status = "ok" =>
           /\ last_outcome = "ok"
           /\ requests = attempt + 1
           /\ waited = retry_delay * (requests - 1)
    /\ fetch_status = "raised" =>
           /\ last_outcome # "ok"
           /\ requests = max_retries
           /\ waited = retry_delay * (max_retries - 1)

\* C4: the bounds always hold, and every step of a running fetch is a
\* request or a sleep that raises requests + attempt by one: as the sum is
\* at most 2 * max_retries - 1, the fetch ends after as many steps.
C4_Retry ==
    /\ []C4_RetryBound
    /\ [][fetch_status = "running" =>
             /\ requests' + attempt' = requests + attempt + 1
             /\ requests' + attempt' <= 2 * max_retries - 1]_vars

\* C4 witness: a fetch that succeeded on its last attempt after a timeout
\* and a transport error
C4_Witness ==
    /\ fetch_status = "ok"
    /\ requests = max_retries
    /\ waited = retry_delay * (max_retries - 1)
    /\ Returned

\* C5: for an empty or whitespace-only text analyze returns the full-default
\* record and calls no component, whatever annotation and flags it is given.
C5_BlankText ==
    EmptyText =>
        /\ pc = "idle"
        /\ returned => result = FullDefault
        /\ calls = NoCalls
        /\ requests = 0

\* C5 witness: a whitespace-only text with an annotation and both flags set
C5_Witness ==
    /\ Returned
    /\ text = TEXT_BLANK
    /\ arg_output = Some(CONLLU_OK)
    /\ include_ner /\ include_lemmatization

\* C6: with dependency-parse mode disabled analyze makes no request, and the
\* nine dependency keys are 0 and lemmas is "" in the record it returns.
C6_Disabled ==
    ~udpipe_enabled =>
        /\ requests = 0
        /\ calls.fetch = 0 /\ calls.lemmatizer_fetch = 0
        /\ pc \notin {"request", "sleep"}
        /\ Returned =>
              /\ \A k \in UDPipeKeys : result[k] = 0
              /\ result["lemmas"] = ""

\* C6 witness: disabled mode, a parsable annotation supplied, lemmas asked
\* for, and a record with computed stylometric values
C6_Witness ==
    /\ ~udpipe_enabled
    /\ Returned
    /\ arg_output = Some(CONLLU_OK)
    /\ include_lemmatization
    /\ result.flesch_reading_ease > 0

\* the twelve stylometric keys of the record are the analyzer's output for
\* the text, up to the include_ner override
StylometricKeysFromAnalyzer ==
    /\ calls.stylometric = 1
    /\ \A k \in StylometricKeys \ NerKeys :
           result[k] = StylometricAnalyzer_analyze(text)[k]
    /\ \A k \in NerKeys :
           result[k] = IF include_ner
                       THEN StylometricAnalyzer_analyze(text)[k] ELSE 0

\* C7 as stated: for every non-empty text analyze runs the Stylometric
\* Analyzer and returns its output in the twelve stylometric keys.
C7_Original ==
    (Returned /\ ~EmptyText) => StylometricKeysFromAnalyzer

\* C7 amended: for every non-empty text analyze runs the Stylometric
\* Analyzer and returns its output in the twelve stylometric keys, unless
\* the fetch or the parse failed: then the analyzer is not run and the
\* twelve keys are 0.
C7_StylometricUnlessFailed ==
    (Returned /\ ~EmptyText) =>
        IF FetchFailed \/ ParseFailed
        THEN /\ calls.stylometric = 0
             /\ \A k \in StylometricKeys : result[k] = 0
        ELSE StylometricKeysFromAnalyzer

\* C7 witness: the stylometric values of TEXT_A in a record of the enabled
\* mode, next to computed dependency values
C7_Witness ==
    /\ Returned
    /\ udpipe_enabled
    /\ text = TEXT_A
    /\ include_ner
    /\ result.flesch_reading_ease = 10840
    /\ result.per_count = 1
    /\ result.token_quantity = 8

----------------------------------------------------------------------------
(* Properties of two calls on the same text and annotation: hist is the    *)
(* call before the latest one.                                             *)

\* both calls had the same text, were passed the same annotation and worked
\* on the same annotation (the fetched one, when none was passed)
SameTextAndAnnotation ==
    /\ Returned
    /\ hist.valid
    /\ hist.text = text
    /\ hist.arg_output = arg_output
    /\ hist.udpipe_output = udpipe_output

\* C9: with include_ner false the three entity counts of the record are 0,
\* and every other key has the value it has with include_ner true on the
\* same text and annotation.
C9_NerOverride ==
    /\ (Returned /\ ~include_ner) => \A k \in NerKeys : result[k] = 0
    /\ (/\ SameTextAndAnnotation
        /\ hist.include_lemmatization = include_lemmatization
        /\ hist.include_ner /\ ~include_ner) =>
           \A k \in RecordKeys \ NerKeys : result[k] = hist.result[k]

\* C9 witness: entities were counted with include_ner true and are 0 with
\* include_ner false, in records with computed dependency values
C9_Witness ==
    /\ SameTextAndAnnotation
    /\ hist.include_lemmatization = include_lemmatization
    /\ hist.include_ner /\ ~include_ner
    /\ hist.result.per_count = 1 /\ hist.result.org_count = 1
    /\ result.per_count = 0 /\ result.org_count = 0
    /\ result.noun_freq = hist.result.noun_freq
    /\ result.token_quantity = 8

\* C10: in dependency-parse mode lemmas is the lemma string of the sentences
\* the Complexity Analyzer received when include_lemmatization is true and
\* "" when it is false; every other key is the same in both cases.
C10_Lemmas ==
    /\ (Returned /\ udpipe_enabled /\ ~include_lemmatization) =>
           result["lemmas"] = ""
    /\ (Returned /\ udpipe_enabled /\ include_lemmatization /\ calls.complexity = 1) =>
           /\ calls.lemmatizer = 1
           /\ result["lemmas"] = extract_lemmas_string(sentences)
    /\ (/\ SameTextAndAnnotation
        /\ udpipe_enabled
        /\ hist.include_ner = include_ner
        /\ hist.include_lemmatization /\ ~include_lemmatization) =>
           \A k \in RecordKeys \ {"lemmas"} : result[k] = hist.result[k]

\* C10 witness: the same fetched annotation gave its lemmas with
\* include_lemmatization true and "" with false
C10_Witness ==
    /\ SameTextAndAnnotation
    /\ udpipe_enabled
    /\ arg_output.isNone
    /\ hist.include_ner = include_ner
    /\ hist.include_lemmatization /\ ~include_lemmatization
    /\ hist.result.lemmas = "Ana rir porque querer gato e gato"
    /\ result.lemmas = ""
    /\ result.token_quantity = 8

----------------------------------------------------------------------------
(* Repeated calls on one analyzer *)

SameCall ==
    /\ Returned
    /\ hist.valid
    /\ hist.text = text
    /\ hist.arg_output = arg_output
    /\ hist.include_ner = include_ner
    /\ hist.include_lemmatization = include_lemmatization

\* C11: two calls of analyze on the same analyzer with the same text, the
\* same supplied annotation and the same flags return the same record,
\* whatever calls were made between them.
C11_SameCallSameRecord ==
    (SameCall /\ ~arg_output.isNone) => result = hist.result

\* C11 witness: a call with a supplied annotation returned the computed
\* record of an earlier identical call, another call lying between the two
C11_Witness ==
    /\ SameCall
    /\ hist.between
    /\ udpipe_enabled
    /\ arg_output = Some(CONLLU_OK)
    /\ text = TEXT_A
    /\ result = hist.result
    /\ result.token_quantity = 8
    /\ result.verb_freq = 2000

\* the steps of a call add up to the function analyze_returns
CallIsFunction ==
    Returned =>
        result = analyze_returns(udpipe_enabled, text,
                                 IF fetch_status = "raised" THEN NoneStr
                                 ELSE udpipe_output,
                                 include_ner, include_lemmatization)

----------------------------------------------------------------------------
(* Concurrent calls on one analyzer *)

\* the record of task i's call run alone, its own text sent to the service
\* and the fetch ending as task i's fetch ended
RunAlone(i) ==
    LET t == tasks[i]
        used == IF t.fetch_status = "ok" THEN Some(udpipe_process(t.text))
                ELSE IF t.fetch_status = "raised" THEN NoneStr
                ELSE t.udpipe_output
    IN  analyze_returns(udpipe_enabled, t.text, used, TRUE, TRUE)

\* C12: concurrent calls of analyze on one shared analyzer write no shared
\* state: the client's request metadata is never mutated, each request
\* carries the metadata and the text of its own call only, and each call
\* returns the record it returns when run alone.
C12_NoSharedWrites ==
    /\ data_metadata = DataMetadata
    /\ \A p \in posted :
           p.request = Update(DataMetadata, [data |-> tasks[p.idx].text])
    /\ \A i \in DOMAIN tasks :
           tasks[i].pc = "done" => tasks[i].metrics = RunAlone(i)

\* C12 witness: two calls with different texts were in flight together,
\* both past their request, and both returned computed records
C12_Witness ==
    /\ DOMAIN tasks = 1..NRows
    /\ tasks[1].text = TEXT_A /\ tasks[2].text = TEXT_B
    /\ \E p \in posted : p.idx = 1
    /\ \E p \in posted : p.idx = 2
    /\ tasks[1].pc = "done" /\ tasks[2].pc = "done"
    /\ tasks[1].attempt > 0
    /\ tasks[1].metrics.token_quantity = 8
    /\ tasks[2].metrics.lemmas # ""

----------------------------------------------------------------------------
(* Properties of the component functions *)

ComplexityCalled == fn = "LinguisticComplexityAnalyzer.analyze"

SyllablesCalled == fn = "_count_syllables_pt"

\* the tokens of a collection, as (sentence, position) pairs
TokensOf(c) == {<<k, i>> \in (1..Len(c)) \X (1..MaxTreeTokens + 1) : i <= Len(c[k])}

NoContentToken(c) == \A p \in TokensOf(c) : c[p[1]][p[2]].deprel = D_punct

NoClauseToken(c) ==
    \A p \in TokensOf(c) :
        \A d \in {D_csubj, D_ccomp, D_xcomp, D_advcl, D_acl} :
            ~Contains(d, c[p[1]][p[2]].deprel)

\* every sentence has exactly one token with head 0
OneRootEach(c) ==
    \A k \in 1..Len(c) :
        Cardinality({i \in 1..Len(c[k]) : c[k][i].head = 0}) = 1

\* C13: for every sentence collection lexical_density and ttr lie within
\* [0.0, 1.0], and both are 0.0 when no token has a relation other than
\* "punct", whatever the tags and relations of the tokens.
C13_UnitInterval ==
    ComplexityCalled =>
        /\ 0 <= ret.lexical_density /\ ret.lexical_density <= 10000
        /\ 0 <= ret.ttr /\ ret.ttr <= 10000
        /\ NoContentToken(arg.val) => ret.lexical_density = 0 /\ ret.ttr = 0

\* C14: for every sentence collection without a clause token MLC, DCC and
\* CPC are 0.0 and no division by zero happens: the record is the computed
\* one, with the content tokens counted, whenever the trees can be built.
C14_NoClause ==
    (ComplexityCalled /\ NoClauseToken(arg.val)) =>
        /\ ret.MLC = 0 /\ ret.DCC = 0 /\ ret.CPC = 0
        /\ OneRootEach(arg.val) =>
               ret.token_quantity =
                   Cardinality({p \in TokensOf(arg.val) :
                                   arg.val[p[1]][p[2]].deprel # D_punct})

\* C14 witness: a collection with content tokens and a coordination token
\* but no clause token got its computed record
C14_Witness ==
    /\ ComplexityCalled
    /\ NoClauseToken(arg.val)
    /\ \E p \in TokensOf(arg.val) : arg.val[p[1]][p[2]].deprel = D_conj
    /\ ret.token_quantity = 2
    /\ ret.MLS = 200
    /\ ret.MLC = 0 /\ ret.CPC = 0

\* C15: for every sentence collection profundidade_max >= profundidade_media
\* >= 0, and both are 0 when every sentence is a single token.
C15_Depths ==
    ComplexityCalled =>
        /\ 100 * ret.profundidade_max >= ret.profundidade_media
        /\ ret.profundidade_media >= 0
        /\ (\A k \in 1..Len(arg.val) : Len(arg.val[k]) = 1) =>
               ret.profundidade_max = 0 /\ ret.profundidade_media = 0

\* C15 witness: a flat sentence after a sentence of depth 1, so that the
\* maximum lies above the mean
C15_Witness ==
    /\ ComplexityCalled
    /\ Len(arg.val) = 2
    /\ Len(arg.val[1]) = 1 /\ Len(arg.val[2]) = 2
    /\ ret.profundidade_max = 1
    /\ ret.profundidade_media = 50

\* the word has a character that is no whitespace
NotBlankWord(word) == \E i \in 1..Len(word) : word[i] \notin Whitespace

\* C16 as stated: for every non-empty input string _count_syllables_pt
\* returns an integer >= 1.
C16_Original ==
    (SyllablesCalled /\ Len(arg.val) > 0) => ret >= 1

\* C16: for every input string with a character that is no whitespace
\* _count_syllables_pt returns an integer >= 1, and it returns 0 for an
\* empty or whitespace-only string.
C16_AtLeastOne ==
    SyllablesCalled =>
        /\ ret \in Nat
        /\ NotBlankWord(arg.val) => ret >= 1
        /\ ~NotBlankWord(arg.val) => ret = 0

\* C16 witness: a word whose only vowel run is one diphthong, for which the
\* corrected count would be 0, gave 1
C16_Witness ==
    /\ SyllablesCalled
    /\ arg.val = <<"a", "i">>
    /\ ret = 1

\* the word lower-cased, stripped and reduced to a-z and the accented vowels
Cleaned(word) == SelectSeq(strip(lower(word)), LAMBDA c : c \in KeptChars)

\* V: the maximal runs of consecutive vowel characters
MaximalVowelRuns(w) ==
    Cardinality({r \in (1..Len(w)) \X (1..Len(w)) :
        /\ r[1] <= r[2]
        /\ \A k \in r[1]..r[2] : w[k] \in Vowels
        /\ (r[1] = 1 \/ w[r[1] - 1] \notin Vowels)
        /\ (r[2] = Len(w) \/ w[r[2] + 1] \notin Vowels)})

\* D: the occurrences of the seven bigrams; a bigram of two different
\* letters cannot overlap itself, so every occurrence counts
BigramOccurrences(w) ==
    Cardinality({p \in (1..Len(w)) \X
                       {<<"a", "i">>, <<"a", "u">>, <<"e", "i">>, <<"e", "u">>,
                        <<"o", "i">>, <<"o", "u">>, <<"u", "i">>} :
        p[1] < Len(w) /\ w[p[1]] = p[2][1] /\ w[p[1] + 1] = p[2][2]})

\* C17: when letters remain after cleaning, _count_syllables_pt returns
\* max(1, V - D); it returns 1 when no letter remains and 0 exactly for an
\* empty or whitespace-only input; "casa" gives 2 and "nao" with a tilde 1.
C17_VowelRunsLessDiphthongs ==
    SyllablesCalled =>
        LET w == Cleaned(arg.val)
            n == MaximalVowelRuns(w) - BigramOccurrences(w)
        IN  /\ Len(w) > 0 => ret = (IF n >= 1 THEN n ELSE 1)
            /\ (NotBlankWord(arg.val) /\ Len(w) = 0) => ret = 1
            /\ ret = 0 <=> ~NotBlankWord(arg.val)
            /\ arg.val = WORD_CASA => ret = 2
            /\ arg.val = WORD_NAO => ret = 1

\* C17 witness: "casa" was counted as two syllables
C17_Witness ==
    /\ SyllablesCalled
    /\ arg.val = WORD_CASA
    /\ MaximalVowelRuns(Cleaned(arg.val)) = 2
    /\ ret = 2

\* the words joined from the last one backwards
RECURSIVE JoinedBySpaces(_)
JoinedBySpaces(words) ==
    IF Len(words) = 0 THEN ""
    ELSE IF Len(words) = 1 THEN words[1]
    ELSE JoinedBySpaces(SubSeq(words, 1, Len(words) - 1)) \o " " \o words[Len(words)]

\* the tokens of the collection in sentence order then token order whose
\* relation is neither "punct" nor "nummod"
SurvivingTokens(c) ==
    SelectSeq(Flatten(c), LAMBDA t : t.deprel \notin {D_punct, D_nummod})

\* C18: extract_lemmas_string returns the lemmas of the tokens whose
\* relation is neither exactly "punct" nor exactly "nummod", in sentence
\* order then token order, joined by single spaces, repeated lemmas kept
\* and subtyped relations such as "nummod:gov" kept; "" when there is no
\* sentence or no surviving token.
C18_Lemmas ==
    fn = "extract_lemmas_string" =>
        LET kept == SurvivingTokens(arg.val)
        IN  /\ ret = JoinedBySpaces([i \in 1..Len(kept) |-> kept[i].lemma])
            /\ (Len(arg.val) = 0 \/ Len(kept) = 0) => ret = ""

\* C18 witness: of a "nummod" token and a "nummod:gov" token the lemma of
\* the second alone was returned
C18_Witness ==
    /\ fn = "extract_lemmas_string"
    /\ arg.val = <<<<Token(1, 0, "NOUN", D_nummod, 2),
                     Token(2, 1, "NOUN", D_nummod_gov, 1)>>>>
    /\ ret = "gato"

\* the tokens of the document that are neither punctuation nor space
DocWords(doc) ==
    SelectSeq(doc.tokens, LAMBDA t : t.is_punct = FALSE /\ t.is_space = FALSE)

\* 1000 * sentences * words * (248.835 - 1.015 * (words / sentences)
\*                             - 84.6 * (syllables / words))
FleschTimesDen(S, W, Y) == 248835 * S * W - 1015 * W * W - 84600 * Y * S

\* C19: flesch_reading_ease is 0.0 when the sentence count or the word count
\* is zero, and otherwise a hundredth nearest to 248.835 - 1.015 * (words /
\* sentences) - 84.6 * (syllables / words), the words being the tokens that
\* are neither punctuation nor space and the syllables the sum of
\* _count_syllables_pt over them; for 10 words, 1 sentence and 20 syllables
\* the unrounded value is 69.485.
C19_Flesch ==
    fn = "_calculate_flesch_reading_ease" =>
        LET words == DocWords(arg.val)
            S == arg.val.nsents
            W == Len(words)
            Y == SumSeq([i \in 1..W |-> _count_syllables_pt(words[i].text)])
            N == FleschTimesDen(S, W, Y)
        IN  /\ (S = 0 \/ W = 0) => ret = 0
            /\ (S > 0 /\ W > 0) =>
                   /\ 10 * ret * S * W - N <= 5 * S * W
                   /\ N - 10 * ret * S * W <= 5 * S * W
            /\ arg.val = DOC_TEN =>
                   /\ W = 10 /\ S = 1 /\ Y = 20
                   /\ N = 69485 * S * W

\* C19 witness: the document of 10 words, 1 sentence and 20 syllables, whose
\* value 69.485 lies between two hundredths, gave 69.49
C19_Witness ==
    /\ fn = "_calculate_flesch_reading_ease"
    /\ arg.val = DOC_TEN
    /\ ret = 6949

\* the keys of the three subsets
ComplexityKeys ==
    {"MLC", "MLS", "DCC", "CPC", "profundidade_media", "profundidade_max",
     "ttr", "lexical_density", "token_quantity"}

StylometricSubsetKeys ==
    {"noun_freq", "verb_freq", "adj_freq", "adv_freq", "avg_word_length",
     "long_words_ratio", "sentence_length_variance", "punctuation_ratio",
     "flesch_reading_ease", "per_count", "org_count", "loc_count"}

BlankText(t) == \A i \in 1..Len(t) : t[i] \in Whitespace

\* C20: the three analyzers always return their complete subset, and the
\* all-default one for zero sentences or an empty text and whenever a
\* step inside raises (a tree that cannot be built, a failed fetch, an
\* annotation that does not parse, a text spaCy rejects).
C20_CompleteDefaults ==
    /\ ComplexityCalled =>
           /\ DOMAIN ret = ComplexityKeys
           /\ (Len(arg.val) = 0 \/ ~OneRootEach(arg.val)) =>
                  \A k \in ComplexityKeys : ret[k] = 0
    /\ fn = "LemmatizerAnalyzer.analyze" =>
           /\ DOMAIN ret = {"lemmas"}
           /\ (\/ BlankText(arg.val.text)
               \/ arg.val.fetched = Some(<<<<"raised">>>>)
               \/ arg.val.udpipe_output = Some(CONLLU_BAD)
               \/ arg.val.fetched = Some(CONLLU_BAD)) => ret.lemmas = ""
    /\ fn = "StylometricAnalyzer.analyze" =>
           /\ DOMAIN ret = StylometricSubsetKeys
           /\ (BlankText(arg.val.text) \/ Len(arg.val.text) > nlp_max_length) =>
                  \A k \in StylometricSubsetKeys : ret[k] = 0

\* C20 witness: a collection whose second sentence has two roots, so that
\* to_tree raised after the counts were made, gave the nine defaults
C20_Witness ==
    /\ ComplexityCalled
    /\ Len(arg.val) = 2
    /\ OneRootEach(<<arg.val[1]>>)
    /\ Cardinality({i \in 1..Len(arg.val[2]) : arg.val[2][i].head = 0}) = 2
    /\ DOMAIN ret = ComplexityKeys
    /\ \A k \in ComplexityKeys : ret[k] = 0

----------------------------------------------------------------------------
(* The figures of the complexity record, against counts made on the labels  *)
(* and on the paths of the trees.                                           *)

\* the root-to-leaf walks of a sentence, as sequences of positions
RootPaths(sent) ==
    UNION {{p \in [1..m -> 1..Len(sent)] :
                /\ sent[p[1]].head = 0
                /\ \A i \in 1..(m - 1) : sent[p[i + 1]].head = sent[p[i]].id} :
           m \in 1..Len(sent)}

\* edges on the longest walk from the root
LongestPathEdges(sent) ==
    LET lengths == {Len(p) - 1 : p \in RootPaths(sent)}
    IN  CHOOSE e \in lengths : \A f \in lengths : f <= e

Abs(n) == IF n < 0 THEN -n ELSE n

\* r hundredths is n / d rounded to 2 decimals
IsRounded2(r, n, d) == 2 * Abs(r * d - 100 * n) <= d

\* the label contains the substring
HasSubstring(label, sub) ==
    \E i \in 0..(Len(label) - Len(sub)) : SubSeq(label, i + 1, i + Len(sub)) = sub

LabelCount(c, subs) ==
    Cardinality({p \in TokensOf(c) :
                    \E sub \in subs : HasSubstring(c[p[1]][p[2]].deprel, sub)})

ClauseCount(c) == LabelCount(c, {D_csubj, D_ccomp, D_xcomp, D_advcl, D_acl})

DependentCount(c) == LabelCount(c, {D_advcl, D_acl})

CoordinationCount(c) == LabelCount(c, {D_conj, D_cc})

ContentCount(c) ==
    Cardinality({p \in TokensOf(c) : c[p[1]][p[2]].deprel # D_punct})

\* the call returned the computed record: sentences, and a tree for each
Computed == ComplexityCalled /\ Len(arg.val) > 0 /\ OneRootEach(arg.val)

\* C21: the depth of a sentence tree is the number of edges on the longest
\* root-to-leaf path; profundidade_media is the mean of the depths over the
\* sentences rounded to 2 decimals and profundidade_max their maximum.
C21_Depth ==
    Computed =>
        LET c      == arg.val
            depths == [k \in 1..Len(c) |-> LongestPathEdges(c[k])]
        IN  /\ ret.profundidade_max \in Range(depths)
            /\ \A k \in 1..Len(c) : depths[k] <= ret.profundidade_max
            /\ IsRounded2(ret.profundidade_media, SumSeq(depths), Len(c))

\* C21 witness: a tree with a grandchild next to a single-token sentence
\* gave a maximum of 2 and a mean of 1.0
C21_Witness ==
    /\ Computed
    /\ Len(arg.val) = 2
    /\ LongestPathEdges(arg.val[1]) = 2
    /\ Len(arg.val[2]) = 1
    /\ ret.profundidade_max = 2
    /\ ret.profundidade_media = 100

\* C22: token_quantity is the number of tokens whose relation is not exactly
\* "punct" (a subtyped "punct:x" counts); MLS is token_quantity over the
\* number of sentences and MLC token_quantity over the number of clause
\* tokens, each rounded to 2 decimals.
C22_TokenQuantity ==
    Computed =>
        LET c == arg.val
        IN  /\ ret.token_quantity = ContentCount(c)
            /\ IsRounded2(ret.MLS, ContentCount(c), Len(c))
            /\ ClauseCount(c) > 0 => IsRounded2(ret.MLC, ContentCount(c), ClauseCount(c))

\* C22 witness: of a "punct", a "punct:x" and a clause token the last two
\* were counted: MLS 2.0 over one sentence, MLC 2.0 over one clause token
C22_Witness ==
    /\ Computed
    /\ \E p \in TokensOf(arg.val) : arg.val[p[1]][p[2]].deprel = D_punct
    /\ \E p \in TokensOf(arg.val) : arg.val[p[1]][p[2]].deprel = D_punct_x
    /\ Len(arg.val[1]) = 3
    /\ ret.token_quantity = 2
    /\ ret.MLS = 200
    /\ ret.MLC = 200

\* C23: clause, dependent-clause and coordination membership are decided
\* by substring match on the label, independently: a token is a clause
\* token iff its label contains csubj, ccomp, xcomp, advcl or acl, and a
\* coordination token iff it contains conj or cc, so a "ccomp" token is
\* both; CPC is coordination tokens over clause tokens.
C23_Substring ==
    (Computed /\ ClauseCount(arg.val) > 0) =>
        LET c == arg.val
        IN  /\ IsRounded2(ret.CPC, CoordinationCount(c), ClauseCount(c))
            /\ IsRounded2(ret.MLC, ContentCount(c), ClauseCount(c))
            /\ IsRounded2(ret.DCC, DependentCount(c), ClauseCount(c))

\* C23 witness: a "ccomp" token counted in both classes next to a subtyped
\* "advcl:tmod" clause token: one coordination token over two clause tokens
C23_Witness ==
    /\ Computed
    /\ Len(arg.val) = 1 /\ Len(arg.val[1]) = 2
    /\ arg.val[1][1].deprel = D_ccomp
    /\ arg.val[1][2].deprel = D_advcl_tmod
    /\ ret.CPC = 50
    /\ ret.DCC = 50
    /\ ret.MLC = 100

\* C27: DCC never exceeds 1.0: every dependent-clause token is also a
\* clause token, so the dependent-clause count is at most the clause count.
C27_DCCAtMostOne ==
    ComplexityCalled =>
        /\ ret.DCC <= 100
        /\ DependentCount(arg.val) <= ClauseCount(arg.val)

\* C27 witness: two dependent clauses and one other clause gave 0.67
C27_Witness ==
    /\ Computed
    /\ DependentCount(arg.val) = 2
    /\ ClauseCount(arg.val) = 3
    /\ ret.DCC = 67

----------------------------------------------------------------------------
(* The orchestrator on an annotation whose trees cannot be built and on an  *)
(* annotation that is the empty string.                                     *)

\* the annotation of the latest call was obtained and parsed, and the
\* complexity analyzer failed on a sentence of it
ComplexityFailed ==
    /\ calls.complexity > 0
    /\ Len(sentences) > 0
    /\ \E k \in 1..Len(sentences) :
           Cardinality({i \in 1..Len(sentences[k]) : sentences[k][i].head = 0}) # 1

\* the twelve stylometric keys hold what the stylometric analyzer computes
\* for the text, the entity counts zeroed when include_ner is off
StylometricComputed ==
    \A k \in StylometricSubsetKeys :
        result[k] = IF ~include_ner /\ k \in {"per_count", "org_count", "loc_count"}
                    THEN 0
                    ELSE StylometricAnalyzer_analyze(text)[k]

C29_EmptyAnnotationSupplied ==
    /\ (udpipe_enabled /\ ~arg_output.isNone /\ arg_output.val = <<>>) =>
           /\ calls.fetch = 0 /\ calls.lemmatizer_fetch = 0 /\ requests = 0
           /\ pc # "except"
           /\ (Returned /\ ~EmptyText) =>
                  /\ calls.parse = 1
                  /\ sentences = <<>>
                  /\ \A k \in ComplexityKeys : result[k] = 0
                  /\ result.lemmas = ""
                  /\ calls.stylometric = 1
                  /\ StylometricComputed
    /\ (calls.fetch > 0 \/ requests > 0) => arg_output.isNone

\* C29 witness: a text with the empty string for annotation and both flags
\* set got its stylometric figures and no fetch was made
C29_Witness ==
    /\ Returned
    /\ udpipe_enabled
    /\ arg_output = Some(CONLLU_EMPTY)
    /\ text = TEXT_A
    /\ include_ner /\ include_lemmatization
    /\ calls.fetch = 0
    /\ result # FullDefault

----------------------------------------------------------------------------
(* The batch driver: what it hands to analyze, what a second run finds,     *)
(* what _compute_metrics returns and how the paths count the rows.          *)

\* the cells that stand for no annotation: no such key, None, NaN, the
\* empty string and the string "nan"
NoAnnotationCells ==
    {[type |-> "absent", val |-> <<>>], [type |-> "NoneType", val |-> <<>>],
     [type |-> "float", val |-> <<>>], [type |-> "str", val |-> <<>>],
     [type |-> "str", val |-> <<<<"nan">>>>]}

BatchRunning == phase \in {"running", "computed", "done", "interrupted", "failed"}

\* C24: the batch driver passes None to analyze whenever the annotation
\* value of the row is missing, None, NaN, the empty string or the string
\* "nan", in _process_row and in _analyze_row alike; any other value is
\* passed on as the annotation string.
C24_AnnotationArgument ==
    BatchRunning =>
        \A i \in 1..Len(df) :
            passed[i].called =>
                /\ passed[i].text = df[i].text.val
                /\ passed[i].udpipe_output =
                       IF df[i].udpipe \in NoAnnotationCells
                       THEN [isNone |-> TRUE, val |-> <<>>]
                       ELSE [isNone |-> FALSE, val |-> df[i].udpipe.val]

\* C24 witness: a worker was handed None for a NaN cell and the string for
\* the row after it
C24_Witness ==
    /\ phase = "computed"
    /\ parallel_method = "thread"
    /\ df[1].udpipe = PyNaN
    /\ passed[1].called /\ passed[1].udpipe_output = NoneStr
    /\ passed[2].called /\ passed[2].udpipe_output = Some(CONLLU_BAD)

\* the progress the run started from: that of the checkpoint it loaded, or
\* none
FoundAtStart ==
    IF loaded.exists
    THEN [metrics_list |-> loaded.metrics_list,
          processed |-> loaded.metadata.processed,
          failed |-> loaded.metadata.failed]
    ELSE [metrics_list |-> [i \in 1..Len(df) |-> NoMetrics],
          processed |-> 0, failed |-> 0]

\* C25: with resume enabled and checkpoint_interval > 0, the run after an
\* interrupted or failed run loads the checkpoint that run saved and
\* continues from its first row without a record; the rows in the
\* checkpoint are not recomputed, and the progress reported as saved at
\* the interruption is what the next run finds.
C25_ResumeFindsCheckpoint ==
    (/\ run = "again" /\ BatchRunning
     /\ resume /\ checkpoint_interval > 0
     /\ previous.ended \in {"interrupted", "failed"}) =>
        /\ previous.checkpoint.exists =>
               /\ loaded = previous.checkpoint
               /\ \A i \in 1..Len(df) :
                      previous.checkpoint.metrics_list[i] # NoMetrics =>
                          /\ ~passed[i].called
                          /\ metrics_list[i] = previous.checkpoint.metrics_list[i]
               /\ \A i \in 1..Len(df) :
                      (/\ previous.checkpoint.metrics_list[i] = NoMetrics
                       /\ \A j \in 1..(i - 1) :
                              previous.checkpoint.metrics_list[j] # NoMetrics) =>
                          start_idx = i - 1
        /\ previous.ended = "interrupted" =>
               /\ FoundAtStart.metrics_list = previous.metrics_list
               /\ FoundAtStart.processed = previous.processed_count
               /\ FoundAtStart.failed = previous.failed_count

\* C26: when _compute_metrics returns, in sequential, thread and process
\* mode alike, metrics_list holds one full-key record for every row of
\* the dataframe and no None entry, also when a worker or the executor
\* fails.
C26_OneRecordPerRow ==
    phase = "computed" =>
        /\ Len(metrics_list) = Len(df)
        /\ \A i \in 1..Len(df) :
               /\ metrics_list[i] # NoMetrics
               /\ DOMAIN metrics_list[i] = RecordKeys

\* one of the two runs went the sequential path and the other a parallel one
OtherPath ==
    (previous.parallel_method = "sequential") # (parallel_method = "sequential")

\* C30: the sequential path and the parallel paths agree: for the same
\* rows and the same per-row analysis outcomes they produce the same
\* metrics_list, processed_count and failed_count.
C30_PathsAgree ==
    (/\ run = "again" /\ phase = "done" /\ previous.ended = "done"
     /\ ~disturbed /\ ~previous.disturbed
     /\ OtherPath) =>
        /\ metrics_list = previous.metrics_list
        /\ processed_count = previous.processed_count
        /\ failed_count = previous.failed_count

====
